---- MODULE Spec2Model ----
(***************************************************************************)
(* Model of the password generator (src/password_generator.py): the pure   *)
(* helpers build_charset, generate_with_requirements and                   *)
(* generate_passphrase, the wordlist loader and the handlers of            *)
(* PasswordGeneratorWindow that use them.                                  *)
(*                                                                         *)
(* A Python str is a sequence of Unicode code points (naturals), so that   *)
(* strip(), lower(), capitalize() and the comparison "a" <= s <= "z" are   *)
(* computed as Python computes them.  A list of str is a sequence of such  *)
(* sequences.                                                              *)
(***************************************************************************)
EXTENDS Integers, Sequences, FiniteSets, TLC

VARIABLES
    \* check boxes, line edits and spin boxes of the window
    chk_lower, chk_upper, chk_digits, chk_symbols, chk_exclude_ambiguous,
    txt_custom_symbols, spin_length, min_lower, min_upper, min_digits, min_symbols,
    \* the maximum of the four minimum spin boxes, always set together
    min_maximum,
    cmb_mode, spin_count, preset_index,
    spin_words, txt_separator, chk_capitalize,
    \* self.wordlist, self.wordlist_path, the text of self.out
    wordlist, wordlist_path, out,
    \* the text of self.lbl_wordlist
    lbl_wordlist,
    \* the message boxes the last handler (or the constructor) showed, in order
    msgs,
    \* what the last open() of a wordlist file gave
    opened,
    \* a call of one of the module-level functions, outside any window
    call,
    \* _load_wordlist_from_path and the passphrase branch of on_generate
    \* taken statement by statement: where each one is, and its local lists
    loader, generator

classVars == <<chk_lower, chk_upper, chk_digits, chk_symbols, chk_exclude_ambiguous,
               txt_custom_symbols, spin_length, min_lower, min_upper, min_digits, min_symbols,
               min_maximum>>
modeVars  == <<cmb_mode, spin_count, preset_index>>
passVars  == <<spin_words, txt_separator, chk_capitalize>>
listVars  == <<wordlist, wordlist_path, lbl_wordlist>>
stepVars  == <<loader, generator>>
vars == <<classVars, modeVars, passVars, listVars, out, msgs, opened, call, stepVars>>

------------------------------------------------------------------------------
(* Bounds of the exploration *)

\* largest per-class minimum restored into the window
MaxMin == 2
\* largest length argument of a direct call of generate_with_requirements
MaxArgLength == 2
\* most lines of a wordlist file built from LineSamples
MaxLines == 2
\* most words asked of a direct call of generate_passphrase
MaxWords == 2
\* largest length and charset size of a direct call of estimate_entropy_bits
MaxEntropyArg == 6
\* largest Number of Passwords the user enters
MaxCount == 2
\* most characters of a working sequence shuffled on its own
MaxShuffle == 3

------------------------------------------------------------------------------
(* Strings *)

Min(a, b) == IF a <= b THEN a ELSE b
Max(a, b) == IF a >= b THEN a ELSE b

RECURSIVE Sum(_)
Sum(s) == IF s = <<>> THEN 0 ELSE Head(s) + Sum(Tail(s))

Range(s) == {s[i] : i \in DOMAIN s}

\* sep.join(parts)
RECURSIVE Join(_, _)
Join(sep, parts) ==
    IF parts = <<>> THEN <<>>
    ELSE IF Len(parts) = 1 THEN parts[1]
    ELSE parts[1] \o sep \o Join(sep, Tail(parts))

\* str.isspace() of one character: the ASCII white space, NEL and NBSP
IsSpace(ch) == ch \in {9, 10, 11, 12, 13, 28, 29, 30, 31, 32, 133, 160}

\* str.strip()
RECURSIVE LStrip(_)
LStrip(s) == IF s # <<>> /\ IsSpace(Head(s)) THEN LStrip(Tail(s)) ELSE s
RECURSIVE RStrip(_)
RStrip(s) == IF s # <<>> /\ IsSpace(s[Len(s)]) THEN RStrip(SubSeq(s, 1, Len(s) - 1)) ELSE s
Strip(s) == RStrip(LStrip(s))

\* str.lower() of one character, a str of one or two characters: the ASCII
\* capitals, KELVIN SIGN (U+212A -> "k") and LATIN CAPITAL LETTER I WITH DOT
\* ABOVE (U+0130 -> "i" + U+0307); every other character of the model is
\* caseless or lower case already
LowerChar(ch) ==
    IF ch \in 65..90 THEN <<ch + 32>>
    ELSE IF ch = 8490 THEN <<107>>
    ELSE IF ch = 304 THEN <<105, 775>>
    ELSE <<ch>>

\* str.upper() of one character (the ASCII small letters; others unchanged)
UpperChar(ch) == IF ch \in 97..122 THEN <<ch - 32>> ELSE <<ch>>

\* str.lower()
RECURSIVE Lower(_)
Lower(s) == IF s = <<>> THEN <<>> ELSE LowerChar(Head(s)) \o Lower(Tail(s))

\* str.capitalize(): the first character upper-cased, the rest lower-cased
Capitalize(s) == IF s = <<>> THEN <<>> ELSE UpperChar(Head(s)) \o Lower(Tail(s))

\* a <= b for two str: code points compared left to right, a prefix is smaller
RECURSIVE StrLeq(_, _)
StrLeq(a, b) ==
    IF a = <<>> THEN TRUE
    ELSE IF b = <<>> THEN FALSE
    ELSE IF Head(a) # Head(b) THEN Head(a) < Head(b)
    ELSE StrLeq(Tail(a), Tail(b))

------------------------------------------------------------------------------
(* Constants & defaults *)

\* string.ascii_lowercase, string.ascii_uppercase, string.digits
ascii_lowercase == [i \in 1..26 |-> 96 + i]
ascii_uppercase == [i \in 1..26 |-> 64 + i]
digits == [i \in 1..10 |-> 47 + i]

\* set("Il1O0B8S5Z2QG6")
AMBIGUOUS == {73, 108, 49, 79, 48, 66, 56, 83, 53, 90, 50, 81, 71, 54}

\* "!@#$%^&*()-_=+[]{};:,./?~"
DEFAULT_SYMBOLS ==
    <<33, 64, 35, 36, 37, 94, 38, 42, 40, 41, 45, 95, 61, 43, 91, 93, 123, 125,
      59, 58, 44, 46, 47, 63, 126>>

\* the threshold of the "Wordlist too small" warning
MIN_WORDS == 256

\* the least Length the spin box allows: spin_length.setRange(4, 200)
MIN_LENGTH == 4

\* the greatest Length: spin_length.setRange(4, 200)
MAX_LENGTH == 200

\* the maximum make_min_spin gives a minimum spin box: s.setRange(0, 200)
MIN_SPIN_MAXIMUM == 200

FALLBACK_WORDS ==
  <<
    <<97,98,108,101>>, <<97,98,111,117,116>>, <<97,98,111,118,101>>, <<97,99,105,100>>, <<97,99,111,114,110>>,
    <<97,99,116,111,114>>, <<97,100,97,112,116>>, <<97,103,101,110,116>>, <<97,103,114,101,101>>,
    <<97,104,101,97,100>>, <<97,108,98,117,109>>, <<97,108,101,114,116>>, <<97,108,105,101,110>>,
    <<97,108,112,104,97>>, <<97,109,98,101,114>>, <<97,110,103,108,101>>, <<97,110,107,108,101>>,
    <<97,112,112,108,101>>, <<97,112,114,105,108>>, <<97,114,101,110,97>>, <<97,114,103,117,101>>,
    <<97,114,105,115,101>>, <<97,114,109,111,114>>, <<97,114,114,111,119>>, <<97,115,115,101,116>>,
    <<97,117,100,105,111>>, <<97,117,116,117,109,110>>, <<97,119,97,114,100>>, <<97,118,111,105,100>>,
    <<97,119,97,107,101>>, <<98,97,99,111,110>>, <<98,97,100,103,101>>, <<98,97,115,105,99>>,
    <<98,97,116,99,104>>, <<98,101,97,99,104>>, <<98,101,97,114,100>>, <<98,101,97,115,116>>,
    <<98,101,103,105,110>>, <<98,101,110,99,104>>, <<98,101,114,114,121>>, <<98,105,110,103,111>>,
    <<98,105,114,99,104>>, <<98,108,97,99,107>>, <<98,108,97,100,101>>, <<98,108,97,110,107>>,
    <<98,108,101,110,100>>, <<98,108,101,115,115>>, <<98,108,105,110,100>>, <<98,108,111,99,107>>,
    <<98,108,111,110,100>>, <<98,108,111,111,100>>, <<98,111,97,114,100>>, <<98,111,111,115,116>>,
    <<98,111,117,110,100>>, <<98,114,97,118,101>>, <<98,114,101,97,100>>, <<98,114,105,99,107>>,
    <<98,114,105,100,101>>, <<98,114,105,110,103>>, <<98,114,111,97,100>>, <<98,114,111,111,109>>,
    <<98,114,111,119,110>>, <<98,114,117,115,104>>, <<98,117,100,100,121>>, <<98,117,105,108,100>>,
    <<99,97,98,105,110>>, <<99,97,98,108,101>>, <<99,97,110,100,121>>, <<99,97,110,111,101>>,
    <<99,97,114,103,111>>, <<99,97,114,114,121>>, <<99,97,114,118,101>>, <<99,97,117,115,101>>,
    <<99,101,97,115,101>>, <<99,104,97,105,110>>, <<99,104,97,105,114>>, <<99,104,97,108,107>>,
    <<99,104,97,109,112>>, <<99,104,97,114,116>>, <<99,104,101,101,107>>, <<99,104,101,115,115>>,
    <<99,104,105,101,102>>, <<99,104,105,108,100>>, <<99,105,100,101,114>>, <<99,105,118,105,99>>,
    <<99,108,97,105,109>>, <<99,108,101,114,107>>, <<99,108,111,99,107>>, <<99,108,111,117,100>>,
    <<99,111,97,99,104>>, <<99,111,97,115,116>>, <<99,111,98,114,97>>, <<99,111,99,111,97>>,
    <<99,111,108,111,114>>, <<99,111,109,105,99>>, <<99,111,114,97,108>>, <<99,111,117,99,104>>,
    <<99,111,118,101,114>>, <<99,114,97,102,116>>, <<99,114,97,110,101>>, <<99,114,97,115,104>>,
    <<99,114,101,97,109>>, <<99,114,101,101,107>>, <<99,114,105,115,112>>, <<99,114,111,119,110>>,
    <<99,121,99,108,101>>, <<100,97,105,108,121>>, <<100,97,105,114,121>>, <<100,97,110,99,101>>,
    <<100,101,98,117,116>>, <<100,101,108,97,121>>, <<100,101,108,116,97>>, <<100,101,110,115,101>>,
    <<100,101,112,116,104>>, <<100,105,103,105,116>>, <<100,105,110,101,114>>, <<100,111,100,103,101>>,
    <<100,111,117,103,104>>, <<100,114,97,102,116>>, <<100,114,97,109,97>>, <<100,114,101,97,109>>,
    <<100,114,105,102,116>>, <<100,114,105,110,107>>, <<100,114,105,118,101>>, <<101,97,103,101,114>>,
    <<101,97,103,108,101>>, <<101,97,114,108,121>>, <<101,97,114,116,104>>, <<101,98,111,110,121>>,
    <<101,105,103,104,116>>, <<101,108,98,111,119>>, <<101,108,100,101,114>>, <<101,108,105,116,101>>,
    <<101,109,98,101,114>>, <<101,109,112,116,121>>, <<101,110,116,101,114>>, <<101,113,117,97,108>>,
    <<101,113,117,105,112>>, <<101,118,101,110,116>>, <<101,118,101,114,121>>, <<101,120,97,99,116>>,
    <<101,120,105,108,101>>, <<101,120,105,115,116>>, <<101,120,116,114,97>>, <<102,97,98,108,101>>,
    <<102,97,105,114,121>>, <<102,97,105,116,104>>, <<102,97,108,115,101>>, <<102,97,110,99,121>>,
    <<102,101,97,115,116>>, <<102,105,98,101,114>>, <<102,105,101,108,100>>, <<102,105,101,114,121>>,
    <<102,105,103,104,116>>, <<102,105,110,97,108>>, <<102,108,97,109,101>>, <<102,108,97,115,104>>,
    <<102,108,117,116,101>>, <<102,111,99,117,115>>, <<102,111,114,99,101>>, <<102,111,114,103,101>>,
    <<102,114,97,109,101>>, <<102,114,101,115,104>>, <<102,114,111,115,116>>, <<102,117,122,122,121>>,
    <<103,105,97,110,116>>, <<103,105,110,103,101,114>>, <<103,105,114,116,104>>, <<103,108,97,100,101>>,
    <<103,108,97,114,101>>, <<103,108,105,100,101>>, <<103,108,111,98,101>>, <<103,108,111,114,121>>,
    <<103,108,111,118,101>>, <<103,114,97,99,101>>, <<103,114,97,100,101>>, <<103,114,97,105,110>>,
    <<103,114,97,110,100>>, <<103,114,97,112,101>>, <<103,114,97,115,115>>, <<103,114,97,118,101>>,
    <<103,114,101,101,110>>, <<103,114,105,110,100>>, <<103,114,111,111,109>>, <<103,114,111,117,112>>,
    <<103,117,105,100,101>>, <<104,97,98,105,116>>, <<104,97,112,112,121>>, <<104,97,114,115,104>>,
    <<104,97,114,98,111,114>>, <<104,97,122,101,108>>, <<104,101,97,114,116>>, <<104,101,97,118,121>>,
    <<104,101,100,103,101>>, <<104,101,108,108,111>>, <<104,111,98,98,121>>, <<104,111,110,101,121>>,
    <<104,111,110,111,114>>, <<104,111,114,115,101>>, <<104,111,117,115,101>>, <<104,117,109,97,110>>,
    <<104,117,109,111,114>>, <<105,118,111,114,121>>, <<106,101,108,108,121>>, <<106,111,108,108,121>>,
    <<106,117,100,103,101>>, <<106,117,105,99,101>>, <<106,117,109,112,121>>, <<107,110,97,99,107>>,
    <<107,110,101,101,108>>, <<107,110,105,102,101>>, <<107,111,97,108,97>>, <<108,97,98,101,108>>,
    <<108,97,98,111,114>>, <<108,97,99,101,121>>, <<108,97,100,108,101>>, <<108,97,103,101,114>>,
    <<108,97,115,101,114>>, <<108,97,116,101,114>>, <<108,97,117,103,104>>, <<108,97,121,101,114>>,
    <<108,101,97,114,110>>, <<108,101,109,111,110>>, <<108,101,118,101,108>>, <<108,105,103,104,116>>,
    <<108,105,108,97,99>>, <<108,105,118,101,114>>, <<108,111,100,103,101>>, <<108,111,103,105,99>>,
    <<108,111,121,97,108>>, <<108,117,99,107,121>>, <<108,117,110,97,114>>, <<108,117,110,99,104>>,
    <<109,97,103,105,99>>, <<109,97,110,103,111>>, <<109,97,112,108,101>>, <<109,97,114,99,104>>,
    <<109,97,114,115,104>>, <<109,97,116,99,104>>, <<109,101,97,100,111,119>>, <<109,101,114,105,116>>,
    <<109,101,116,97,108>>, <<109,105,99,114,111>>, <<109,105,109,105,99>>, <<109,105,110,101,115>>,
    <<109,105,110,111,114>>, <<109,111,100,101,108>>, <<109,111,110,101,121>>, <<109,111,110,116,104>>,
    <<109,111,114,97,108>>, <<109,111,116,111,114>>, <<109,111,117,110,116>>, <<109,111,118,105,101>>,
    <<109,117,115,105,99>>, <<110,97,105,118,101>>, <<110,97,118,121>>, <<110,101,97,114,108,121>>,
    <<110,101,111,110>>, <<110,101,114,118,101>>, <<110,101,118,101,114>>, <<110,111,98,108,101>>,
    <<110,111,105,115,121>>, <<110,111,114,116,104>>, <<110,111,118,101,108>>, <<110,117,114,115,101>>,
    <<110,121,109,112,104>>, <<111,97,115,105,115>>, <<111,99,101,97,110>>, <<111,102,102,101,114>>,
    <<111,102,116,101,110>>, <<111,108,105,118,101>>, <<111,110,105,111,110>>, <<111,112,101,114,97>>,
    <<111,114,98,105,116>>, <<111,114,100,101,114>>, <<111,114,103,97,110>>, <<111,117,116,101,114>>,
    <<111,119,110,101,114>>, <<111,120,105,100,101>>, <<111,122,111,110,101>>, <<112,97,110,100,97>>,
    <<112,97,110,101,108>>, <<112,97,110,105,99>>, <<112,97,112,101,114>>, <<112,97,114,107,97>>,
    <<112,97,116,99,104>>, <<112,97,116,105,111>>, <<112,101,97,99,104>>, <<112,101,97,114,108>>,
    <<112,101,110,110,121>>, <<112,101,114,99,104>>, <<112,104,97,115,101>>, <<112,104,111,110,101>>,
    <<112,104,111,116,111>>, <<112,105,97,110,111>>, <<112,105,101,99,101>>, <<112,105,108,111,116>>,
    <<112,105,122,122,97>>, <<112,108,97,105,110>>, <<112,108,97,110,101>>, <<112,108,97,110,116>>,
    <<112,108,97,116,101>>, <<112,108,97,122,97>>, <<112,111,108,97,114>>, <<112,111,114,99,104>>,
    <<112,111,117,110,100>>, <<112,111,119,101,114>>, <<112,114,105,100,101>>, <<112,114,105,109,101>>,
    <<112,114,105,110,116>>, <<112,114,105,122,101>>, <<112,114,111,117,100>>, <<112,117,108,115,101>>,
    <<112,117,110,99,104>>, <<112,117,112,112,121>>, <<112,117,114,115,101>>, <<112,121,108,111,110>>,
    <<113,117,101,101,110>>, <<113,117,105,99,107>>, <<113,117,105,101,116>>, <<113,117,105,108,116>>,
    <<113,117,111,116,97>>, <<113,117,111,116,101>>, <<114,97,110,99,104>>, <<114,97,118,101,110>>,
    <<114,101,97,99,104>>, <<114,101,97,100,121>>, <<114,101,108,97,120>>, <<114,101,112,108,121>>,
    <<114,104,105,110,111>>, <<114,105,100,101,114>>, <<114,105,100,103,101>>, <<114,105,103,104,116>>,
    <<114,105,118,101,114>>, <<114,111,98,111,116>>, <<114,111,99,107,121>>, <<114,111,103,101,114>>,
    <<114,111,109,97,110>>, <<114,111,117,103,104>>, <<114,111,117,110,100>>, <<114,111,121,97,108>>,
    <<114,117,103,98,121>>, <<114,117,108,101,114>>, <<114,117,114,97,108>>, <<115,97,108,97,100>>,
    <<115,97,108,115,97>>, <<115,97,110,100,121>>, <<115,99,97,114,102>>, <<115,99,101,110,101>>,
    <<115,99,111,111,112>>, <<115,99,111,114,101>>, <<115,99,111,117,116>>, <<115,99,114,117,98>>,
    <<115,101,105,122,101>>, <<115,101,110,115,101>>, <<115,101,118,101,110>>, <<115,104,97,114,107>>,
    <<115,104,101,101,112>>, <<115,104,101,108,102>>, <<115,104,105,110,101>>, <<115,104,111,114,101>>,
    <<115,104,111,114,116>>, <<115,104,114,117,98>>, <<115,105,103,104,116>>, <<115,105,114,101,110>>,
    <<115,107,97,116,101>>, <<115,107,105,108,108>>, <<115,107,105,114,116>>, <<115,107,117,108,108>>,
    <<115,108,97,116,101>>, <<115,108,105,99,101>>, <<115,108,111,112,101>>, <<115,109,97,108,108>>,
    <<115,109,97,114,116>>, <<115,109,105,108,101>>, <<115,109,111,107,101>>, <<115,110,97,107,101>>,
    <<115,110,101,97,107>>, <<115,110,105,102,102>>, <<115,111,108,97,114>>, <<115,111,108,105,100>>,
    <<115,111,110,105,99>>, <<115,111,117,110,100>>, <<115,111,117,116,104>>, <<115,112,97,99,101>>,
    <<115,112,97,114,101>>, <<115,112,97,114,107>>, <<115,112,101,97,107>>, <<115,112,101,101,100>>,
    <<115,112,105,99,101>>, <<115,112,105,107,101>>, <<115,112,111,111,110>>, <<115,112,111,114,116>>,
    <<115,112,114,97,121>>, <<115,113,117,97,100>>, <<115,116,97,99,107>>, <<115,116,97,103,101>>,
    <<115,116,97,105,110>>, <<115,116,97,105,114>>, <<115,116,97,107,101>>, <<115,116,97,109,112>>,
    <<115,116,97,110,100>>, <<115,116,97,114,116>>, <<115,116,101,97,109>>, <<115,116,101,101,108>>,
    <<115,116,101,101,112>>, <<115,116,111,111,108>>, <<115,116,111,114,109>>, <<115,116,111,114,121>>,
    <<115,116,114,97,119>>, <<115,116,114,105,112>>, <<115,116,117,99,107>>, <<115,116,121,108,101>>,
    <<115,117,103,97,114>>, <<115,117,110,110,121>>, <<115,117,112,101,114>>, <<115,119,97,109,112>>,
    <<115,119,105,110,103>>, <<116,97,98,108,101>>, <<116,97,110,103,111>>, <<116,97,115,116,121>>,
    <<116,101,97,99,104>>, <<116,101,97,115,101>>, <<116,101,110,116,104>>, <<116,105,103,101,114>>,
    <<116,111,97,115,116>>, <<116,111,107,101,110>>, <<116,111,112,105,99>>, <<116,111,114,99,104>>,
    <<116,111,116,97,108>>, <<116,111,117,99,104>>, <<116,111,119,101,114>>, <<116,111,120,105,99>>,
    <<116,114,97,99,101>>, <<116,114,97,105,108>>, <<116,114,97,105,110>>, <<116,114,101,97,116>>,
    <<116,114,101,110,100>>, <<116,114,105,97,108>>, <<116,114,105,98,101>>, <<116,114,111,117,116>>,
    <<116,114,117,108,121>>, <<116,114,117,115,116>>, <<116,114,117,116,104>>, <<116,119,101,101,116>>,
    <<116,119,105,99,101>>, <<117,110,99,108,101>>, <<117,110,100,101,114>>, <<117,110,105,111,110>>,
    <<117,114,98,97,110>>, <<117,115,97,103,101>>, <<118,97,112,111,114>>, <<118,105,118,105,100>>,
    <<118,111,99,97,108>>, <<118,111,116,101,114>>, <<119,97,103,111,110>>, <<119,97,105,115,116>>,
    <<119,97,108,116,122>>, <<119,97,115,116,101>>, <<119,97,116,99,104>>, <<119,97,116,101,114>>,
    <<119,101,97,114,121>>, <<119,104,101,97,116>>, <<119,104,101,101,108>>, <<119,104,105,115,107>>,
    <<119,104,105,116,101>>, <<119,104,111,108,101>>, <<119,105,110,100,121>>, <<119,105,115,101,114>>,
    <<119,111,109,97,110>>, <<119,111,114,108,100>>, <<119,111,114,114,121>>, <<119,111,114,116,104>>,
    <<119,111,118,101,110>>, <<119,114,105,115,116>>, <<120,101,110,111,110>>, <<121,111,117,110,103>>,
    <<121,111,117,116,104>>, <<122,101,98,114,97>>, <<122,101,115,116,121>>, <<122,111,110,97,108>>
  >>

------------------------------------------------------------------------------
(* Core helpers *)

\* Dedup keeping the last occurrence of a character, not the first
DedupLast(items) ==
    LET kept == SelectSeq([i \in DOMAIN items |-> i],
                          LAMBDA i : \A j \in (i + 1)..Len(items) : items[j] # items[i])
    IN  [k \in DOMAIN kept |-> items[kept[k]]]

\* the "de-dup preserving order" loop: an item is appended when it is not in
\* `seen`, which holds the items before it
Dedup(items) ==
    LET kept == SelectSeq([i \in DOMAIN items |-> i],
                          LAMBDA i : \A j \in 1..(i - 1) : items[j] # items[i])
    IN  [k \in DOMAIN kept |-> items[kept[k]]]

\* the symbol alphabet: custom_symbols.strip() if it is not empty, else the default
SymbolAlphabet(custom_symbols) ==
    IF Strip(custom_symbols) # <<>> THEN Strip(custom_symbols) ELSE DEFAULT_SYMBOLS

\* the filter of exclude_ambiguous
DropAmbiguous(charset) == SelectSeq(charset, LAMBDA ch : ch \notin AMBIGUOUS)

\* build_charset filtering the built-in classes only: the symbols are appended
\* after the exclusion
build_charset_symbols_unfiltered(include_lower, include_upper, include_digits, include_symbols, custom_symbols, exclude_ambiguous) ==
    LET c1 == IF include_lower THEN ascii_lowercase ELSE <<>>
        c2 == IF include_upper THEN c1 \o ascii_uppercase ELSE c1
        c3 == IF include_digits THEN c2 \o digits ELSE c2
        c4 == IF exclude_ambiguous THEN DropAmbiguous(c3) ELSE c3
        c5 == IF include_symbols THEN c4 \o SymbolAlphabet(custom_symbols) ELSE c4
    IN  Dedup(c5)

\* build_charset ignoring exclude_ambiguous
build_charset_no_exclusion(include_lower, include_upper, include_digits, include_symbols, custom_symbols, exclude_ambiguous) ==
    LET c1 == IF include_lower THEN ascii_lowercase ELSE <<>>
        c2 == IF include_upper THEN c1 \o ascii_uppercase ELSE c1
        c3 == IF include_digits THEN c2 \o digits ELSE c2
        c4 == IF include_symbols THEN c3 \o SymbolAlphabet(custom_symbols) ELSE c3
    IN  Dedup(c4)

build_charset(include_lower, include_upper, include_digits, include_symbols, custom_symbols, exclude_ambiguous) ==
    LET c1 == IF include_lower THEN ascii_lowercase ELSE <<>>
        c2 == IF include_upper THEN c1 \o ascii_uppercase ELSE c1
        c3 == IF include_digits THEN c2 \o digits ELSE c2
        c4 == IF include_symbols THEN c3 \o SymbolAlphabet(custom_symbols) ELSE c3
        c5 == IF exclude_ambiguous THEN DropAmbiguous(c4) ELSE c4
    IN  Dedup(c5)

\* The secure random source is a tape of integers, read round and round: the
\* k-th draw of a call, secrets.randbelow(n), is the tape's k-th number
\* modulo n: 0 gives the first index, -1 gives n - 1, the last.
RawDraws == {-1, 0}
Tapes == [1..2 -> RawDraws]

RandBelow(tape, k, n) == tape[((k - 1) % Len(tape)) + 1] % n

\* secrets.choice(seq) as the k-th draw
Choice(seq, tape, k) == seq[RandBelow(tape, k, Len(seq)) + 1]

\* [secrets.choice(seq) for _ in range(n)], from the k-th draw on
Choices(seq, n, tape, k) == [i \in 1..n |-> Choice(seq, tape, k + i - 1)]

\* a Python exception: the text of its message and the class key it names
NoError == [msg |-> "", key |-> ""]
ValueError(msg, key) == [msg |-> msg, key |-> key]
IndexError(msg) == [msg |-> msg, key |-> ""]
Returned(value) == [raised |-> FALSE, value |-> value, error |-> NoError]
Raised(error) == [raised |-> TRUE, value |-> <<>>, error |-> error]

MsgCharsetEmpty == "Character set is empty."
MsgRequiredExceed == "Required characters exceed length."
MsgPoolEmpty == "Requirement but its character set is empty."

\* pools.get(key, "")
PoolOf(pools, key) == IF key \in DOMAIN pools THEN pools[key] ELSE <<>>

\* TotalReq comparing the largest count, not the sum, with the length
RECURSIVE LargestReq(_)
LargestReq(required) ==
    IF required = <<>> THEN 0
    ELSE Max(Max(0, Head(required).n), LargestReq(Tail(required)))

\* sum(max(0, n) for n in required.values()); required is the list of the
\* dict's items, in insertion order
TotalReq(required) == Sum([i \in DOMAIN required |-> Max(0, required[i].n)])

\* the pre-placement loop passing over a class whose pool is empty
RECURSIVE PrePlaceSkipEmpty(_, _, _, _, _)
PrePlaceSkipEmpty(items, pools, pw_chars, tape, k) ==
    IF items = <<>> THEN Returned(pw_chars)
    ELSE LET key == Head(items).key
             n == Head(items).n
             pool == PoolOf(pools, key)
         IN  IF pool = <<>>
             THEN PrePlaceSkipEmpty(Tail(items), pools, pw_chars, tape, k)
             ELSE PrePlaceSkipEmpty(Tail(items), pools,
                                    pw_chars \o Choices(pool, n, tape, k),
                                    tape, k + Max(0, n))

\* the pre-placement loop from the k-th draw on: pw_chars after it, or the
\* ValueError of the first class that has a requirement and an empty pool
RECURSIVE PrePlace(_, _, _, _, _)
PrePlace(items, pools, pw_chars, tape, k) ==
    IF items = <<>> THEN Returned(pw_chars)
    ELSE LET key == Head(items).key
             n == Head(items).n
             pool == PoolOf(pools, key)
         IN  IF n # 0 /\ pool = <<>> THEN Raised(ValueError(MsgPoolEmpty, key))
             ELSE PrePlace(Tail(items), pools, pw_chars \o Choices(pool, n, tape, k),
                           tape, k + Max(0, n))

\* pw_chars[i], pw_chars[j] = pw_chars[j], pw_chars[i]  (0-based i, j)
Swap(pw_chars, i, j) ==
    [pw_chars EXCEPT ![i + 1] = pw_chars[j + 1], ![j + 1] = pw_chars[i + 1]]

\* the loop drawing j below i, so that no character stays where it is
RECURSIVE ShuffleBelowIndex(_, _, _, _)
ShuffleBelowIndex(pw_chars, i, tape, k) ==
    IF i < 1 THEN pw_chars
    ELSE ShuffleBelowIndex(Swap(pw_chars, i, RandBelow(tape, k, i)), i - 1, tape, k + 1)

\* the Fisher-Yates loop from index i down to 1, from the k-th draw on
RECURSIVE Shuffle(_, _, _, _)
Shuffle(pw_chars, i, tape, k) ==
    IF i < 1 THEN pw_chars
    ELSE Shuffle(Swap(pw_chars, i, RandBelow(tape, k, i + 1)), i - 1, tape, k + 1)

\* generate_with_requirements with the pre-placed characters left out of the
\* password: every character is drawn from the full charset
generate_fill_only(length, pools, required, full_charset, tape, k) ==
    IF full_charset = <<>> THEN Raised(ValueError(MsgCharsetEmpty, ""))
    ELSE IF TotalReq(required) > length THEN Raised(ValueError(MsgRequiredExceed, ""))
    ELSE LET placed == PrePlace(required, pools, <<>>, tape, k)
         IN  IF placed.raised THEN placed
             ELSE Returned(Shuffle(Choices(full_charset, length, tape, k),
                                   length - 1, tape, k + length))

\* generate_with_requirements reading the tape from the k-th draw on: the
\* returned str or the ValueError raised
generate_with_requirements(length, pools, required, full_charset, tape, k) ==
    IF full_charset = <<>> THEN Raised(ValueError(MsgCharsetEmpty, ""))
    ELSE IF TotalReq(required) > length THEN Raised(ValueError(MsgRequiredExceed, ""))
    ELSE LET placed == PrePlace(required, pools, <<>>, tape, k)
         IN  IF placed.raised THEN placed
             ELSE LET n == Len(placed.value)
                      pw_chars == placed.value \o
                                  Choices(full_charset, length - n, tape, k + n)
                  IN  Returned(Shuffle(pw_chars, Len(pw_chars) - 1, tape, k + length))

\* A number of bits is kept exact, as the product it is computed from:
\* [factor |-> f, log2_of |-> s] is the float f * math.log2(s), and 0.0 is
\* 0 * math.log2(1).
Bits(f, s) == [factor |-> f, log2_of |-> s]
ZeroBits == Bits(0, 1)

RECURSIVE Pow(_, _)
Pow(b, e) == IF e <= 0 THEN 1 ELSE b * Pow(b, e - 1)

\* 2 ** bits, which orders the values: x < y exactly when 2 ** x < 2 ** y
TwoToThe(bits) == Pow(bits.log2_of, bits.factor)

\* estimate_entropy_bits with its parameters taken for each other
estimate_entropy_swapped(length, charset_size) ==
    IF length <= 0 \/ charset_size <= 1 THEN ZeroBits
    ELSE Bits(charset_size, length)

estimate_entropy_bits(length, charset_size) ==
    IF length <= 0 \/ charset_size <= 1 THEN ZeroBits
    ELSE Bits(length, charset_size)

\* the draws of a sample without replacement: a word drawn leaves the list
RECURSIVE DrawDistinct(_, _, _, _)
DrawDistinct(words, n, tape, k) ==
    IF n <= 0 THEN <<>>
    ELSE LET i == RandBelow(tape, k, Len(words)) + 1
             rest == SubSeq(words, 1, i - 1) \o SubSeq(words, i + 1, Len(words))
         IN  <<words[i]>> \o DrawDistinct(rest, n - 1, tape, k + 1)

\* generate_passphrase drawing the words without replacement
generate_passphrase_distinct(n_words, words, sep, cap, tape, k) ==
    IF n_words > Len(words) THEN Raised(ValueError("Sample larger than population", ""))
    ELSE LET picks == DrawDistinct(words, n_words, tape, k)
         IN  Returned(Join(sep, IF cap THEN [i \in DOMAIN picks |-> Capitalize(picks[i])]
                                       ELSE picks))

\* generate_passphrase passing over an empty list: no word is drawn from it
generate_passphrase_lenient(n_words, words, sep, cap, tape, k) ==
    IF words = <<>> THEN Returned(<<>>)
    ELSE LET picks == Choices(words, n_words, tape, k)
         IN  Returned(Join(sep, IF cap THEN [i \in DOMAIN picks |-> Capitalize(picks[i])]
                                       ELSE picks))

\* generate_passphrase reading the tape from the k-th draw on; secrets.choice
\* of an empty list raises IndexError
MsgEmptySequence == "Cannot choose from an empty sequence"
generate_passphrase(n_words, words, sep, cap, tape, k) ==
    IF n_words > 0 /\ words = <<>> THEN Raised(IndexError(MsgEmptySequence))
    ELSE LET picks == Choices(words, n_words, tape, k)
         IN  Returned(Join(sep, IF cap THEN [i \in DOMAIN picks |-> Capitalize(picks[i])]
                                       ELSE picks))

------------------------------------------------------------------------------
(* The wordlist loader *)

\* "for line in f": the lines of the text, each with its line end; the last
\* one may have none
Lines(text) ==
    LET ends == SelectSeq([i \in DOMAIN text |-> i], LAMBDA i : text[i] = 10)
        start(k) == IF k = 1 THEN 1 ELSE ends[k - 1] + 1
        whole == [k \in DOMAIN ends |-> SubSeq(text, start(k), ends[k])]
        rest == SubSeq(text, start(Len(ends) + 1), Len(text))
    IN  IF rest = <<>> THEN whole ELSE Append(whole, rest)

\* all(("a" <= ch.lower() <= "z") or ch in ("'", "-") for ch in w)
Usable(w) ==
    \A i \in DOMAIN w :
        \/ StrLeq(<<97>>, LowerChar(w[i])) /\ StrLeq(LowerChar(w[i]), <<122>>)
        \/ w[i] \in {39, 45}

\* the loop over the lines: strip, skip the empty ones, keep the usable ones
\* lower-cased
Words(lines) ==
    LET stripped == [k \in DOMAIN lines |-> Strip(lines[k])]
        kept == SelectSeq(stripped, LAMBDA w : w # <<>> /\ Usable(w))
    IN  [k \in DOMAIN kept |-> Lower(kept[k])]

\* the list `filtered` of _load_wordlist_from_path
Filtered(text) == Dedup(Words(Lines(text)))

\* a file as open() finds it: readable with a text, or raising OSError
Readable(text) == [state |-> "read", text |-> text]
Unreadable == [state |-> "failed", text |-> <<>>]
NotOpened == [state |-> "none", text |-> <<>>]

\* QMessageBox.warning / QMessageBox.critical (show_error)
Warning(text) == [icon |-> "warning", text |-> text, detail |-> ""]
Critical(text, detail) == [icon |-> "critical", text |-> text, detail |-> detail]

MsgTooSmall == "The selected wordlist has fewer than 256 words."
MsgNoUsable == "No usable words found in the selected file."
MsgLoadFailed == "Failed to load wordlist:"
MsgOSError == "OSError"


------------------------------------------------------------------------------
(* The window: generation *)

MsgNoWordlist == "No wordlist available. Load a wordlist first."
MsgNoClass == "Please select at least one character class."
MsgEmptyAfterExclusions == "The character set is empty after applying exclusions."
MsgTotalExceed == "Total required characters exceed length."
MsgGenerationFailed == "Generation failed:"

\* a batch that keeps the results made before the first call that raises
RepeatPrefix(results) ==
    LET done == {i \in DOMAIN results : \A j \in 1..i : ~results[j].raised}
    IN  Returned([i \in 1..Cardinality(done) |-> results[i].value])

\* [f() for _ in range(count)]: the list of the results, or the exception
\* of the first call that raises
Repeat(results) ==
    IF \E i \in DOMAIN results : results[i].raised
    THEN results[CHOOSE i \in DOMAIN results :
                    /\ results[i].raised
                    /\ \A j \in 1..(i - 1) : ~results[j].raised]
    ELSE Returned([i \in DOMAIN results |-> results[i].value])

\* "".join(ch for ch in alphabet if ch in charset)
PoolIn(alphabet, charset) ==
    SelectSeq(alphabet, LAMBDA ch : \E i \in DOMAIN charset : charset[i] = ch)

\* the pools of on_generate taken from the whole alphabets, not cut to the
\* charset
pools_unfiltered(include_lower, include_upper, include_digits, include_symbols, custom_symbols, charset) ==
    [k \in {c \in {"lower", "upper", "digits", "symbols"} :
               \/ c = "lower" /\ include_lower
               \/ c = "upper" /\ include_upper
               \/ c = "digits" /\ include_digits
               \/ c = "symbols" /\ include_symbols} |->
        CASE k = "lower" -> ascii_lowercase
          [] k = "upper" -> ascii_uppercase
          [] k = "digits" -> digits
          [] k = "symbols" ->
               IF Strip(custom_symbols) # <<>> THEN Strip(custom_symbols)
               ELSE DEFAULT_SYMBOLS]

\* the pools dict of on_generate: one entry per checked class
pools_of(include_lower, include_upper, include_digits, include_symbols, custom_symbols, charset) ==
    [k \in {c \in {"lower", "upper", "digits", "symbols"} :
               \/ c = "lower" /\ include_lower
               \/ c = "upper" /\ include_upper
               \/ c = "digits" /\ include_digits
               \/ c = "symbols" /\ include_symbols} |->
        CASE k = "lower" -> PoolIn(ascii_lowercase, charset)
          [] k = "upper" -> PoolIn(ascii_uppercase, charset)
          [] k = "digits" -> PoolIn(digits, charset)
          [] k = "symbols" ->
               PoolIn(IF Strip(custom_symbols) # <<>> THEN Strip(custom_symbols)
                      ELSE DEFAULT_SYMBOLS, charset)]

\* the req dict of on_generate: unchecked classes contribute 0
req_of ==
    << [key |-> "lower", n |-> IF chk_lower THEN min_lower ELSE 0],
       [key |-> "upper", n |-> IF chk_upper THEN min_upper ELSE 0],
       [key |-> "digits", n |-> IF chk_digits THEN min_digits ELSE 0],
       [key |-> "symbols", n |-> IF chk_symbols THEN min_symbols ELSE 0] >>

\* custom symbol strings: "", " ", "O0", "#a#!", " @1 " and "O #"
CustomSamples ==
    { <<>>, <<32>>, <<79, 48>>, <<35, 97, 35, 33>>, <<32, 64, 49, 32>>, <<79, 32, 35>> }

CharsetArgs ==
    [include_lower : BOOLEAN, include_upper : BOOLEAN, include_digits : BOOLEAN,
     include_symbols : BOOLEAN, custom_symbols : CustomSamples,
     exclude_ambiguous : BOOLEAN]

\* build_charset of every setting of the controls, computed once
Charsets ==
    [a \in CharsetArgs |->
        build_charset(a.include_lower, a.include_upper, a.include_digits,
                      a.include_symbols, a.custom_symbols, a.exclude_ambiguous)]

\* the pools on_generate builds for every setting of the controls, computed once
Pools ==
    [a \in CharsetArgs |->
        pools_of(a.include_lower, a.include_upper, a.include_digits,
                 a.include_symbols, a.custom_symbols, Charsets[a])]

\* the controls build_charset is called with
window_args ==
    [include_lower |-> chk_lower, include_upper |-> chk_upper,
     include_digits |-> chk_digits, include_symbols |-> chk_symbols,
     custom_symbols |-> txt_custom_symbols,
     exclude_ambiguous |-> chk_exclude_ambiguous]

\* what on_generate leaves in self.out and the message boxes it shows, with
\* `charset` and `pools` built from the controls and `tape` the random source
on_generate_result(charset, pools, tape) ==
    LET count == IF cmb_mode = "Multiple" THEN spin_count ELSE 1
        Shown(box) == [out |-> out, msgs |-> <<box>>]
        Finish(run) ==
            IF run.raised
            THEN [out |-> out, msgs |-> <<Critical(MsgGenerationFailed, run.error.msg)>>]
            ELSE [out |-> Join(<<10>>, run.value), msgs |-> <<>>]
    IN  IF preset_index = 4
        THEN LET sep == IF txt_separator # <<>> THEN txt_separator ELSE <<45>>
             IN  IF wordlist = <<>> THEN Shown(Critical(MsgNoWordlist, ""))
                 ELSE Finish(Repeat([i \in 1..count |->
                        generate_passphrase(spin_words, wordlist, sep, chk_capitalize,
                                            tape, 1 + (i - 1) * spin_words)]))
        ELSE IF ~(chk_lower \/ chk_upper \/ chk_digits \/ chk_symbols)
        THEN Shown(Critical(MsgNoClass, ""))
        ELSE IF charset = <<>> THEN Shown(Critical(MsgEmptyAfterExclusions, ""))
        ELSE IF Sum([i \in DOMAIN req_of |-> req_of[i].n]) > spin_length
        THEN Shown(Critical(MsgTotalExceed, ""))
        ELSE Finish(Repeat([i \in 1..count |->
               generate_with_requirements(spin_length, pools, req_of, charset, tape,
                                          1 + (i - 1) * (2 * spin_length - 1))]))

\* on_generate under every random source
on_generate_results(charset, pools) ==
    {on_generate_result(charset, pools, tape) : tape \in Tapes}

on_generate ==
    /\ call.fn = "none"
    /\ \E r \in on_generate_results(Charsets[window_args], Pools[window_args]) :
          /\ out' = r.out
          /\ msgs' = r.msgs
    /\ opened' = NotOpened
    /\ UNCHANGED <<stepVars, classVars, modeVars, passVars, listVars, call>>

clear_output ==
    /\ call.fn = "none"
    /\ out' = <<>>
    /\ msgs' = <<>>
    /\ opened' = NotOpened
    /\ UNCHANGED <<stepVars, classVars, modeVars, passVars, listVars, call>>

------------------------------------------------------------------------------
(* The window: mode, count and presets *)

\* QSpinBox.setValue: the value is kept within the range of the spin box
Clamp(v, lo, hi) == Max(lo, Min(v, hi))

\* what the character presets Memorable, Strong and PIN set
PresetDefaults(idx) ==
    CASE idx = 1 -> [lower |-> TRUE, upper |-> TRUE, digits |-> FALSE, symbols |-> FALSE,
                     min_lower |-> 1, min_upper |-> 1, min_digits |-> 0, min_symbols |-> 0,
                     length |-> 16, exclude |-> TRUE]
      [] idx = 2 -> [lower |-> TRUE, upper |-> TRUE, digits |-> TRUE, symbols |-> TRUE,
                     min_lower |-> 1, min_upper |-> 1, min_digits |-> 1, min_symbols |-> 1,
                     length |-> 20, exclude |-> TRUE]
      [] idx = 3 -> [lower |-> FALSE, upper |-> FALSE, digits |-> TRUE, symbols |-> FALSE,
                     min_lower |-> 0, min_upper |-> 0, min_digits |-> 4, min_symbols |-> 0,
                     length |-> 8, exclude |-> FALSE]

\* the maximum _sync_min_max_with_length gives the minimum spin boxes
SyncedMaximum(L) == L

\* a minimum spin box whose maximum is lowered without its value being cut
KeepValue(v, top) == v

\* a minimum spin box after setMaximum(top): a greater value is cut to top
SetMaximum(v, top) == Min(v, top)

\* the controls of the character classes as one record
Controls ==
    [lower |-> chk_lower, upper |-> chk_upper, digits |-> chk_digits,
     symbols |-> chk_symbols, exclude |-> chk_exclude_ambiguous,
     length |-> spin_length, maximum |-> min_maximum,
     min_lower |-> min_lower, min_upper |-> min_upper,
     min_digits |-> min_digits, min_symbols |-> min_symbols]

\* _sync_min_max_with_length: setMaximum(L) on the four minimum spin boxes
sync_min_max_with_length(c) ==
    LET top == SyncedMaximum(c.length)
    IN  [c EXCEPT !.maximum = top,
                  !.min_lower = SetMaximum(@, top), !.min_upper = SetMaximum(@, top),
                  !.min_digits = SetMaximum(@, top), !.min_symbols = SetMaximum(@, top)]

\* spin_length.setValue(v): the value is kept within 4..200, and a change of
\* the value emits valueChanged, which runs _sync_min_max_with_length
SetLength(c, v) ==
    LET L == Clamp(v, MIN_LENGTH, MAX_LENGTH)
    IN  IF L = c.length THEN c
        ELSE sync_min_max_with_length([c EXCEPT !.length = L])

\* setValue(v) on the four minimum spin boxes, each within 0..maximum
SetMinimums(c, lo, up, di, sy) ==
    [c EXCEPT !.min_lower = Clamp(lo, 0, c.maximum), !.min_upper = Clamp(up, 0, c.maximum),
              !.min_digits = Clamp(di, 0, c.maximum), !.min_symbols = Clamp(sy, 0, c.maximum)]

\* apply_preset on the controls c: the passphrase preset, Custom and a call
\* that only reflects the state leave them alone; a character preset sets
\* the check boxes and the minimums, then the Length, then the exclusion
PresetApplied(c, idx, apply_defaults_if_needed) ==
    IF idx = 4 \/ ~apply_defaults_if_needed \/ idx = 0 THEN c
    ELSE LET p == PresetDefaults(idx)
             checked == [c EXCEPT !.lower = p.lower, !.upper = p.upper,
                                  !.digits = p.digits, !.symbols = p.symbols,
                                  !.exclude = p.exclude]
         IN  SetLength(SetMinimums(checked, p.min_lower, p.min_upper,
                                   p.min_digits, p.min_symbols),
                       p.length)

\* the controls of the character classes become those of the record c
ControlsBecome(c) ==
    /\ chk_lower' = c.lower /\ chk_upper' = c.upper
    /\ chk_digits' = c.digits /\ chk_symbols' = c.symbols
    /\ chk_exclude_ambiguous' = c.exclude
    /\ spin_length' = c.length /\ min_maximum' = c.maximum
    /\ min_lower' = c.min_lower /\ min_upper' = c.min_upper
    /\ min_digits' = c.min_digits /\ min_symbols' = c.min_symbols
    /\ UNCHANGED txt_custom_symbols

apply_preset(idx, apply_defaults_if_needed) ==
    ControlsBecome(PresetApplied(Controls, idx, apply_defaults_if_needed))

\* the user picks another preset: currentIndexChanged passes the new index
\* to apply_preset as apply_defaults_if_needed
select_preset ==
    /\ call.fn = "none"
    /\ \E idx \in 0..4 :
          /\ idx # preset_index
          /\ preset_index' = idx
          /\ apply_preset(idx, idx # 0)
    /\ msgs' = <<>>
    /\ opened' = NotOpened
    /\ UNCHANGED <<stepVars, cmb_mode, spin_count, passVars, listVars, out, call>>

\* the Lengths the user enters: the least one, a little more, and one past
\* the greatest
LengthInputs == {MIN_LENGTH, MIN_LENGTH + MaxMin, MAX_LENGTH + 1}

\* the user enters a Length
set_length ==
    /\ call.fn = "none"
    /\ \E v \in LengthInputs : ControlsBecome(SetLength(Controls, v))
    /\ msgs' = <<>>
    /\ opened' = NotOpened
    /\ UNCHANGED <<stepVars, modeVars, passVars, listVars, out, call>>

\* the user enters a minimum for one class: 0, MaxMin, the maximum of the
\* spin box or one more
set_min ==
    /\ call.fn = "none"
    /\ \E key \in {"lower", "upper", "digits", "symbols"},
          v \in {0, MaxMin, min_maximum, min_maximum + 1} :
          LET c == Controls
          IN  ControlsBecome(SetMinimums(c,
                  IF key = "lower" THEN v ELSE c.min_lower,
                  IF key = "upper" THEN v ELSE c.min_upper,
                  IF key = "digits" THEN v ELSE c.min_digits,
                  IF key = "symbols" THEN v ELSE c.min_symbols))
    /\ msgs' = <<>>
    /\ opened' = NotOpened
    /\ UNCHANGED <<stepVars, modeVars, passVars, listVars, out, call>>

\* the user picks the other mode; on_mode_changed enables the count in
\* "Multiple"
on_mode_changed ==
    /\ call.fn = "none"
    /\ cmb_mode' = IF cmb_mode = "Single" THEN "Multiple" ELSE "Single"
    /\ msgs' = <<>>
    /\ opened' = NotOpened
    /\ UNCHANGED <<stepVars, classVars, spin_count, preset_index, passVars, listVars, out, call>>

\* the user sets Number of Passwords, enabled in "Multiple" only
set_spin_count ==
    /\ call.fn = "none"
    /\ cmb_mode = "Multiple"
    /\ \E c \in 1..MaxCount : c # spin_count /\ spin_count' = c
    /\ msgs' = <<>>
    /\ opened' = NotOpened
    /\ UNCHANGED <<stepVars, classVars, cmb_mode, preset_index, passVars, listVars, out, call>>

------------------------------------------------------------------------------
(* The window: loading a wordlist *)

\* the paths the file dialog can give ("" when it is cancelled) and the
\* wordlist path the settings can hold ("" for None)
Paths == {"words.txt", "other.txt"}

\* lines a wordlist file is built from: "cat", " Dog ", "123", "foo-bar",
\* an empty line and KELVIN SIGN
LineSamples ==
    { <<99, 97, 116>>, <<32, 68, 111, 103, 32>>, <<49, 50, 51>>,
      <<102, 111, 111, 45, 98, 97, 114>>, <<>>, <<8490>> }

RECURSIVE TextsOf(_)
TextsOf(n) ==
    IF n = 0 THEN {<<>>}
    ELSE TextsOf(n - 1) \cup
         {line \o <<10>> \o text : line \in LineSamples, text \in TextsOf(n - 1)}

\* "cat\ncat\nDog\n123\nfoo-bar\n"
ExampleText ==
    <<99, 97, 116, 10, 99, 97, 116, 10, 68, 111, 103, 10, 49, 50, 51, 10,
      102, 111, 111, 45, 98, 97, 114, 10>>

\* "it's\nCat\ncat\t\nİ\n'tis" : apostrophes, case, a last line without line end
MixedText ==
    <<105, 116, 39, 115, 10, 67, 97, 116, 10, 99, 97, 116, 9, 10, 304, 10, 39, 116, 105, 115>>

\* n different two-letter words, one per line: "aa", "ab", ..., "ap", "ba", ...
ManyWords(n) ==
    [i \in 1..(3 * n) |->
        LET w == (i - 1) \div 3
        IN  CASE i % 3 = 1 -> 97 + (w \div 16)
              [] i % 3 = 2 -> 97 + (w % 16)
              [] OTHER -> 10]

Texts == TextsOf(MaxLines) \cup
         {ExampleText, MixedText, ManyWords(MIN_WORDS - 1), ManyWords(MIN_WORDS),
          ManyWords(MIN_WORDS + 1)}

\* the files open() can find
Files == {Readable(text) : text \in Texts} \cup {Unreadable}

\* the list `filtered` of every text, computed once
FilteredOf == [text \in Texts |-> Filtered(text)]

\* _load_wordlist_from_path assigning self.wordlist before it tests the list
load_assigning_first(file, current) ==
    IF file.state # "read"
    THEN [ok |-> FALSE, wordlist |-> current,
          msgs |-> <<Critical(MsgLoadFailed, MsgOSError)>>]
    ELSE LET filtered == FilteredOf[file.text]
             small == IF Len(filtered) < MIN_WORDS THEN <<Warning(MsgTooSmall)>> ELSE <<>>
         IN  IF filtered # <<>>
             THEN [ok |-> TRUE, wordlist |-> filtered, msgs |-> small]
             ELSE [ok |-> FALSE, wordlist |-> filtered,
                   msgs |-> Append(small, Critical(MsgNoUsable, ""))]

\* _load_wordlist_from_path refusing a list of fewer than 256 words
load_refusing_small(file, current) ==
    IF file.state # "read"
    THEN [ok |-> FALSE, wordlist |-> current,
          msgs |-> <<Critical(MsgLoadFailed, MsgOSError)>>]
    ELSE LET filtered == FilteredOf[file.text]
         IN  IF Len(filtered) >= MIN_WORDS
             THEN [ok |-> TRUE, wordlist |-> filtered, msgs |-> <<>>]
             ELSE IF filtered # <<>>
             THEN [ok |-> FALSE, wordlist |-> current, msgs |-> <<Warning(MsgTooSmall)>>]
             ELSE [ok |-> FALSE, wordlist |-> current,
                   msgs |-> <<Warning(MsgTooSmall), Critical(MsgNoUsable, "")>>]

\* _load_wordlist_from_path on a file: what it returns, self.wordlist after
\* it and the message boxes it shows
load_wordlist_from_path(file, current) ==
    IF file.state # "read"
    THEN [ok |-> FALSE, wordlist |-> current,
          msgs |-> <<Critical(MsgLoadFailed, MsgOSError)>>]
    ELSE LET filtered == FilteredOf[file.text]
             small == IF Len(filtered) < MIN_WORDS THEN <<Warning(MsgTooSmall)>> ELSE <<>>
         IN  IF filtered # <<>>
             THEN [ok |-> TRUE, wordlist |-> filtered, msgs |-> small]
             ELSE [ok |-> FALSE, wordlist |-> current,
                   msgs |-> Append(small, Critical(MsgNoUsable, ""))]

\* _wordlist_label_text: the number of words and the file they are said to
\* come from ("" for the fallback list)
wordlist_label_text(words, path) == [words |-> Len(words), from |-> path]

\* on_load_wordlist when the file the dialog names is one of `files`
on_load_wordlist_of(files) ==
    /\ call.fn = "none"
    /\ \E path \in Paths \cup {""}, file \in files :
          IF path = ""
          THEN /\ msgs' = <<>>
               /\ opened' = NotOpened
               /\ UNCHANGED listVars
          ELSE LET r == load_wordlist_from_path(file, wordlist)
               IN  /\ wordlist' = r.wordlist
                   /\ msgs' = r.msgs
                   /\ opened' = file
                   /\ wordlist_path' = IF r.ok THEN path ELSE wordlist_path
                   /\ lbl_wordlist' = IF r.ok THEN wordlist_label_text(r.wordlist, path)
                                      ELSE lbl_wordlist
    /\ UNCHANGED <<stepVars, classVars, modeVars, passVars, out, call>>

on_load_wordlist == on_load_wordlist_of(Files)

------------------------------------------------------------------------------
(* Loading and generating, statement by statement *)

\* The list objects in play: `filtered` is the local list the loader builds,
\* `active` the list self.wordlist names.  The parameter `words` of a running
\* generate_passphrase names the list that was active when it was called;
\* generator.alias tells whether that is still the active one.
LoaderIdle == [pc |-> "idle", path |-> "", todo |-> <<>>, filtered |-> <<>>]
GeneratorIdle ==
    [pc |-> "idle", words |-> <<>>, alias |-> FALSE, picks |-> <<>>, raised |-> FALSE]

\* wordlist files of the interleaved runs: "cat\n Dog \n", "foo-bar\ncat\n",
\* "123\n" and a file that cannot be read
SwapFiles ==
    { Readable(<<99, 97, 116, 10, 32, 68, 111, 103, 32, 10>>),
      Readable(<<102, 111, 111, 45, 98, 97, 114, 10, 99, 97, 116, 10>>),
      Readable(<<49, 50, 51, 10>>),
      Unreadable }

\* closeEvent: the wordlist path the settings hold after the window is
\* closed; a path that is set is written, and a path that is unset was read
\* as unset from the settings, which are left alone
persisted_on_close == wordlist_path

\* on_load_wordlist with one of the four files of SwapFiles
on_load_sample == on_load_wordlist_of(SwapFiles)

\* a loader that appends each word to the list self.wordlist names as well
append_in_place(lists, w) ==
    [lists EXCEPT !.filtered = Append(@, w), !.active = Append(@, w)]

\* filtered.append(w): the local list grows, no other list is touched
append_filtered(lists, w) ==
    [lists EXCEPT !.filtered = Append(@, w)]

\* the file dialog gave a path and open() was tried: the usable words of the
\* file are about to be collected in a new local list
load_open ==
    /\ call.fn = "none"
    /\ loader.pc = "idle"
    /\ \E path \in Paths, file \in SwapFiles :
          /\ opened' = file
          /\ IF file.state = "failed"
             THEN /\ msgs' = <<Critical(MsgLoadFailed, MsgOSError)>>
                  /\ UNCHANGED loader
             ELSE /\ msgs' = <<>>
                  /\ loader' = [pc |-> "build", path |-> path,
                                todo |-> FilteredOf[file.text], filtered |-> <<>>]
    /\ UNCHANGED <<classVars, modeVars, passVars, listVars, out, call, generator>>

\* one more word is appended to the local list
load_append ==
    /\ loader.pc = "build" /\ loader.todo # <<>>
    /\ LET lists == append_filtered([filtered |-> loader.filtered, active |-> wordlist],
                                    Head(loader.todo))
       IN  /\ loader' = [loader EXCEPT !.todo = Tail(@), !.filtered = lists.filtered]
           /\ wordlist' = lists.active
           /\ generator' = IF generator.alias
                           THEN [generator EXCEPT !.words = lists.active]
                           ELSE generator
    /\ UNCHANGED <<classVars, modeVars, passVars, wordlist_path, lbl_wordlist,
                   out, msgs, opened, call>>

\* the local list is complete: the warning for a small list, then
\* self.wordlist = filtered for a list with a word in it (and the path and
\* the label of on_load_wordlist), or the error
load_assign ==
    /\ loader.pc = "build" /\ loader.todo = <<>>
    /\ LET filtered == loader.filtered
           small == IF Len(filtered) < MIN_WORDS THEN <<Warning(MsgTooSmall)>> ELSE <<>>
       IN  IF filtered # <<>>
           THEN /\ wordlist' = filtered
                /\ wordlist_path' = loader.path
                /\ lbl_wordlist' = wordlist_label_text(filtered, loader.path)
                /\ msgs' = small
                /\ generator' = [generator EXCEPT !.alias = FALSE]
           ELSE /\ msgs' = small \o <<Critical(MsgNoUsable, "")>>
                /\ UNCHANGED <<listVars, generator>>
    /\ loader' = LoaderIdle
    /\ UNCHANGED <<classVars, modeVars, passVars, out, opened, call>>

\* on_generate with the passphrase preset, up to the call of
\* generate_passphrase: its parameter `words` names the active list
generate_bind ==
    /\ call.fn = "none"
    /\ generator.pc \in {"idle", "done"}
    /\ preset_index = 4
    /\ IF wordlist = <<>>
       THEN /\ msgs' = <<Critical(MsgNoWordlist, "")>>
            /\ generator' = GeneratorIdle
       ELSE /\ msgs' = <<>>
            /\ generator' = [pc |-> "pick", words |-> wordlist, alias |-> TRUE,
                             picks |-> <<>>, raised |-> FALSE]
    /\ UNCHANGED <<classVars, modeVars, passVars, listVars, out, opened, call, loader>>

\* secrets.choice(words) for one more word
generate_pick ==
    /\ generator.pc = "pick" /\ Len(generator.picks) < spin_words
    /\ IF generator.words = <<>>
       THEN /\ generator' = [generator EXCEPT !.pc = "done", !.raised = TRUE]
            /\ msgs' = <<Critical(MsgGenerationFailed, MsgEmptySequence)>>
       ELSE /\ \E raw \in RawDraws :
                  generator' = [generator EXCEPT
                                   !.picks = Append(@, Choice(generator.words, <<raw>>, 1))]
            /\ UNCHANGED msgs
    /\ UNCHANGED <<classVars, modeVars, passVars, listVars, out, opened, call, loader>>

\* the picks are capitalized when asked, joined and shown
generate_join ==
    /\ generator.pc = "pick" /\ Len(generator.picks) = spin_words
    /\ out' = Join(IF txt_separator # <<>> THEN txt_separator ELSE <<45>>,
                   [i \in DOMAIN generator.picks |->
                       IF chk_capitalize THEN Capitalize(generator.picks[i])
                       ELSE generator.picks[i]])
    /\ generator' = [generator EXCEPT !.pc = "done"]
    /\ UNCHANGED <<classVars, modeVars, passVars, listVars, msgs, opened, call, loader>>

------------------------------------------------------------------------------
(* Calls of the module-level functions *)

NoCall == [fn |-> "none", args |-> <<>>, done |-> TRUE, result |-> Returned(<<>>)]
Pending(fn, args) == [fn |-> fn, args |-> args, done |-> FALSE, result |-> Returned(<<>>)]

\* pools and charsets of a direct call: "", "a", "ab", "1" / "", "a", "ab1"
ArgPools == { <<>>, <<97>>, <<97, 98>>, <<49>> }
ArgCharsets == { <<>>, <<97>>, <<97, 98, 49>> }
ArgKeys == {"lower", "digits"}

GenerateArgs ==
    { [length |-> l, pools |-> p, full_charset |-> c, tape |-> t,
       required |-> << [key |-> "lower", n |-> a], [key |-> "digits", n |-> b] >>] :
      l \in 0..MaxArgLength, c \in ArgCharsets, t \in Tapes,
      p \in UNION {[D -> ArgPools] : D \in SUBSET ArgKeys},
      a \in (-1)..MaxArgLength, b \in (-1)..MaxArgLength }

\* word lists of a direct call of generate_passphrase: [], ["ab"],
\* ["ab", "cd"] and ["'tis", "aB", "-x"]
ArgWordlists ==
    { <<>>,
      << <<97, 98>> >>,
      << <<97, 98>>, <<99, 100>> >>,
      << <<39, 116, 105, 115>>, <<97, 66>>, <<45, 120>> >> }

\* separators of a direct call: "", "-" and "_ "
ArgSeparators == { <<>>, <<45>>, <<95, 32>> }

\* the random source of a direct call of generate_passphrase: one number for
\* each draw, reaching every index of the longest list
WordTapes == [1..MaxWords -> 0..2]

PassphraseArgs ==
    [n_words : 0..MaxWords, words : ArgWordlists, sep : ArgSeparators,
     cap : BOOLEAN, tape : WordTapes]

return_generate_passphrase ==
    /\ call.fn = "generate_passphrase" /\ ~call.done
    /\ call' = [call EXCEPT !.done = TRUE,
                  !.result = generate_passphrase(
                      call.args.n_words, call.args.words, call.args.sep,
                      call.args.cap, call.args.tape, 1)]
    /\ UNCHANGED <<stepVars, classVars, modeVars, passVars, listVars, out, msgs, opened>>

EntropyArgs == [length : (-1)..MaxEntropyArg, charset_size : (-1)..MaxEntropyArg]

return_estimate_entropy_bits ==
    /\ call.fn = "estimate_entropy_bits" /\ ~call.done
    /\ call' = [call EXCEPT !.done = TRUE,
                  !.result = Returned(estimate_entropy_bits(
                      call.args.length, call.args.charset_size))]
    /\ UNCHANGED <<stepVars, classVars, modeVars, passVars, listVars, out, msgs, opened>>

\* the working sequences of the shuffle: up to MaxShuffle characters out of
\* "a", "b", ..., repeats included
ShuffleLetters == 97..(96 + MaxShuffle)
ShuffleSeqs == UNION {[1..n -> ShuffleLetters] : n \in 0..MaxShuffle}

\* the draws of a shuffle of n characters: the k-th one, made at index
\* i = n - k, is secrets.randbelow(i + 1), a number in 0..i
ShuffleTapes(n) ==
    {t \in [1..(n - 1) -> 0..(n - 1)] : \A k \in 1..(n - 1) : t[k] <= n - k}

ShuffleArgs ==
    UNION {[pw_chars : {s}, tape : ShuffleTapes(Len(s))] : s \in ShuffleSeqs}

\* the Fisher-Yates loop of generate_with_requirements on its own
return_shuffle ==
    /\ call.fn = "shuffle" /\ ~call.done
    /\ call' = [call EXCEPT !.done = TRUE,
                  !.result = Returned(Shuffle(call.args.pw_chars,
                      Len(call.args.pw_chars) - 1, call.args.tape, 1))]
    /\ UNCHANGED <<stepVars, classVars, modeVars, passVars, listVars, out, msgs, opened>>

return_build_charset ==
    /\ call.fn = "build_charset" /\ ~call.done
    /\ call' = [call EXCEPT !.done = TRUE,
                  !.result = Returned(build_charset(
                      call.args.include_lower, call.args.include_upper,
                      call.args.include_digits, call.args.include_symbols,
                      call.args.custom_symbols, call.args.exclude_ambiguous))]
    /\ UNCHANGED <<stepVars, classVars, modeVars, passVars, listVars, out, msgs, opened>>

return_generate_with_requirements ==
    /\ call.fn = "generate_with_requirements" /\ ~call.done
    /\ call' = [call EXCEPT !.done = TRUE,
                  !.result = generate_with_requirements(
                      call.args.length, call.args.pools, call.args.required,
                      call.args.full_charset, call.args.tape, 1)]
    /\ UNCHANGED <<stepVars, classVars, modeVars, passVars, listVars, out, msgs, opened>>

------------------------------------------------------------------------------
(* The window after construction *)

\* the controls as __init__ creates them, with nothing saved
ClassDefaults ==
    /\ chk_lower = TRUE /\ chk_upper = TRUE /\ chk_digits = TRUE /\ chk_symbols = TRUE
    /\ chk_exclude_ambiguous = FALSE
    /\ txt_custom_symbols = <<>>
    /\ spin_length = 16
    /\ min_lower = 1 /\ min_upper = 1 /\ min_digits = 1 /\ min_symbols = 1
    /\ min_maximum = spin_length

ModeDefaults(preset) ==
    /\ cmb_mode = "Single"
    /\ spin_count = 10
    /\ preset_index = preset

PassDefaults ==
    /\ spin_words = 6
    /\ txt_separator = <<45>>
    /\ chk_capitalize = FALSE

ListDefaults ==
    /\ wordlist = FALLBACK_WORDS
    /\ wordlist_path = ""
    /\ lbl_wordlist = wordlist_label_text(FALLBACK_WORDS, "")
    /\ msgs = <<>>
    /\ opened = NotOpened
    /\ loader = LoaderIdle /\ generator = GeneratorIdle

\* custom symbol strings restored into the window: "", "O0" and "O #"
RestoredCustom == { <<>>, <<79, 48>>, <<79, 32, 35>> }

\* _restore_settings and _sync_min_max_with_length: saved check boxes, the
\* least Length, saved minimums cut to the Length; or a saved Length of 20
\* with every class checked, each minimum 1, the default symbols and the
\* exclusion
ClassRestored ==
    \/ /\ chk_lower \in BOOLEAN /\ chk_upper \in BOOLEAN
       /\ chk_digits \in BOOLEAN /\ chk_symbols \in BOOLEAN
       /\ chk_exclude_ambiguous \in BOOLEAN
       /\ txt_custom_symbols \in RestoredCustom
       /\ spin_length = MIN_LENGTH
       /\ min_lower \in 0..Min(MaxMin, spin_length)
       /\ min_upper \in 0..Min(MaxMin, spin_length)
       /\ min_digits \in 0..Min(MaxMin, spin_length)
       /\ min_symbols \in 0..Min(MaxMin, spin_length)
       /\ min_maximum = spin_length
    \/ /\ chk_lower = TRUE /\ chk_upper = TRUE
       /\ chk_digits = TRUE /\ chk_symbols = TRUE
       /\ chk_exclude_ambiguous = TRUE
       /\ txt_custom_symbols = <<>>
       /\ spin_length = 20
       /\ min_lower = 1 /\ min_upper = 1 /\ min_digits = 1 /\ min_symbols = 1
       /\ min_maximum = spin_length

\* the start of __init__: the fallback list, then the remembered wordlist
\* path, loaded when its file exists
ListRestored ==
    \E saved \in Paths \cup {""}, exists \in BOOLEAN, file \in Files :
        LET r == IF saved # "" /\ exists
                 THEN load_wordlist_from_path(file, FALLBACK_WORDS)
                 ELSE [ok |-> FALSE, wordlist |-> FALLBACK_WORDS, msgs |-> <<>>]
        IN  /\ wordlist = r.wordlist
            /\ wordlist_path = saved
            /\ lbl_wordlist = wordlist_label_text(r.wordlist, saved)
            /\ msgs = r.msgs
            /\ opened = IF saved # "" /\ exists THEN file ELSE NotOpened
            /\ loader = LoaderIdle /\ generator = GeneratorIdle

InitCharset ==
    /\ ClassDefaults /\ ModeDefaults(0) /\ PassDefaults /\ ListDefaults
    /\ out = <<>>
    /\ call \in {Pending("build_charset", a) : a \in CharsetArgs}

InitGen ==
    /\ ClassDefaults /\ ModeDefaults(0) /\ PassDefaults /\ ListDefaults
    /\ out = <<>>
    /\ call \in {Pending("generate_with_requirements", a) : a \in GenerateArgs}

InitPhrase ==
    /\ ClassDefaults /\ ModeDefaults(0) /\ PassDefaults /\ ListDefaults
    /\ out = <<>>
    /\ call \in {Pending("generate_passphrase", a) : a \in PassphraseArgs}

InitEntropy ==
    /\ ClassDefaults /\ ModeDefaults(0) /\ PassDefaults /\ ListDefaults
    /\ out = <<>>
    /\ call \in {Pending("estimate_entropy_bits", a) : a \in EntropyArgs}

InitShuffle ==
    /\ ClassDefaults /\ ModeDefaults(0) /\ PassDefaults /\ ListDefaults
    /\ out = <<>>
    /\ call \in {Pending("shuffle", a) : a \in ShuffleArgs}

InitWin ==
    /\ ClassRestored /\ ModeDefaults(0) /\ PassDefaults /\ ListDefaults
    /\ out = <<>>
    /\ call = NoCall

InitLoad ==
    /\ ClassDefaults /\ ModeDefaults(4) /\ PassDefaults /\ ListRestored
    /\ out = <<>>
    /\ call = NoCall

\* _restore_settings for the passphrase controls: the least and the default
\* number of words, a saved separator, the saved check box
PassRestored ==
    /\ spin_words \in {2, 6}
    /\ txt_separator \in ArgSeparators
    /\ chk_capitalize \in BOOLEAN

\* the window with the passphrase preset restored
InitPassWin ==
    /\ ClassDefaults /\ ModeDefaults(4) /\ PassRestored /\ ListRestored
    /\ out = <<>>
    /\ call = NoCall

\* saved settings restored into the character classes: the letter and digit
\* boxes saved alike, the symbols box, the exclusion, the symbols "O0", the
\* least Length and one value for every minimum
ClassBatch ==
    /\ chk_lower \in BOOLEAN /\ chk_upper = chk_lower /\ chk_digits = chk_lower
    /\ chk_symbols \in BOOLEAN
    /\ chk_exclude_ambiguous \in BOOLEAN
    /\ txt_custom_symbols = <<79, 48>>
    /\ spin_length = MIN_LENGTH
    /\ min_lower \in {0, MaxMin}
    /\ min_upper = min_lower /\ min_digits = min_lower /\ min_symbols = min_lower
    /\ min_maximum = spin_length

\* _restore_settings and the end of __init__: a saved Number of Passwords,
\* the mode set to "Single"
ModeRestored(preset) ==
    /\ cmb_mode = "Single"
    /\ spin_count \in 1..MaxCount
    /\ preset_index = preset

\* _restore_settings for the passphrase controls: the least number of words
\* saved, the default separator and check box
PassBatch ==
    /\ spin_words = 2
    /\ txt_separator = <<45>>
    /\ chk_capitalize = FALSE

\* the window with the Custom or the passphrase preset restored
InitBatch ==
    /\ ClassBatch /\ (ModeRestored(0) \/ ModeRestored(4)) /\ PassBatch /\ ListDefaults
    /\ out = <<>>
    /\ call = NoCall

\* saved Lengths, minimums and presets: a Length below the least one, the
\* default one and 20; minimums below 0, within and beyond the Length
SavedSpins ==
    [length : {MIN_LENGTH - 1, 16, 20}, min_lower : {-1, 1, 17, 250},
     min_digits : {1, 17}, preset : 0..4]

\* the controls of the character classes at the end of __init__: the widgets
\* as they are created, _restore_settings (the Length, the minimums, then the
\* preset index, whose change runs apply_preset), apply_preset(False) and
\* _sync_min_max_with_length
Constructed(saved) ==
    LET created == [lower |-> TRUE, upper |-> TRUE, digits |-> TRUE, symbols |-> TRUE,
                    exclude |-> FALSE, length |-> 16, maximum |-> MIN_SPIN_MAXIMUM,
                    min_lower |-> 1, min_upper |-> 1, min_digits |-> 1, min_symbols |-> 1]
        restored == SetMinimums(SetLength(created, saved.length),
                                saved.min_lower, 1, saved.min_digits, 1)
        preset == PresetApplied(restored, saved.preset, saved.preset # 0)
    IN  sync_min_max_with_length(PresetApplied(preset, saved.preset, FALSE))

\* the controls of the character classes are those of the record c
ControlsAre(c) ==
    /\ chk_lower = c.lower /\ chk_upper = c.upper
    /\ chk_digits = c.digits /\ chk_symbols = c.symbols
    /\ chk_exclude_ambiguous = c.exclude
    /\ txt_custom_symbols = <<>>
    /\ spin_length = c.length /\ min_maximum = c.maximum
    /\ min_lower = c.min_lower /\ min_upper = c.min_upper
    /\ min_digits = c.min_digits /\ min_symbols = c.min_symbols

\* the window after construction from saved spin box values
InitSpin ==
    /\ \E saved \in SavedSpins :
          /\ ControlsAre(Constructed(saved))
          /\ preset_index = saved.preset
    /\ cmb_mode = "Single" /\ spin_count = 10
    /\ PassDefaults /\ ListDefaults
    /\ out = <<>>
    /\ call = NoCall

\* the window with the passphrase preset restored, nothing else saved
InitSwap ==
    /\ ClassDefaults /\ ModeDefaults(4) /\ PassBatch /\ ListDefaults
    /\ out = <<>>
    /\ call = NoCall

Init == InitSpin \/ InitSwap \/ InitBatch \/ InitShuffle \/ InitCharset \/ InitGen \/ InitPhrase \/ InitEntropy \/ InitWin \/ InitLoad \/ InitPassWin

Next ==
    \/ return_build_charset
    \/ return_generate_with_requirements
    \/ return_generate_passphrase
    \/ return_estimate_entropy_bits
    \/ return_shuffle
    \/ on_generate
    \/ clear_output
    \/ on_load_wordlist
    \/ on_load_sample
    \/ select_preset
    \/ on_mode_changed
    \/ set_spin_count
    \/ set_length
    \/ set_min
    \/ load_open \/ load_append \/ load_assign
    \/ generate_bind \/ generate_pick \/ generate_join

SpecCharset == InitCharset /\ [][return_build_charset]_vars
SpecGen == InitGen /\ [][return_generate_with_requirements]_vars
SpecPhrase == InitPhrase /\ [][return_generate_passphrase]_vars
SpecEntropy == InitEntropy /\ [][return_estimate_entropy_bits]_vars
SpecShuffle == InitShuffle /\ [][return_shuffle]_vars
SpecPass ==
    (InitPhrase \/ InitPassWin) /\ [][return_generate_passphrase \/ on_generate]_vars
SpecWin == InitWin /\ [][on_generate \/ clear_output]_vars
SpecLoad == InitLoad /\ [][on_load_wordlist]_vars
SpecGenerate ==
    (InitGen \/ InitWin) /\ [][return_generate_with_requirements \/ on_generate]_vars
SpecBatch ==
    (InitGen \/ InitPhrase \/ InitBatch)
        /\ [][\/ return_generate_with_requirements \/ return_generate_passphrase
              \/ on_generate \/ select_preset \/ on_mode_changed \/ set_spin_count]_vars
SpecSwap ==
    InitSwap
        /\ [][\/ load_open \/ load_append \/ load_assign
              \/ generate_bind \/ generate_pick \/ generate_join]_vars
SpecSpin == InitSpin /\ [][set_length \/ set_min \/ select_preset]_vars
SpecVocabulary == InitLoad /\ [][on_load_sample \/ on_generate]_vars
Spec == Init /\ [][Next]_vars

------------------------------------------------------------------------------
(* Claims about build_charset and generate_with_requirements *)

\* a call of `fn` that has returned or raised
Finished(fn) == call.fn = fn /\ call.done

\* the characters of a str
Chars(s) == {s[i] : i \in DOMAIN s}

\* how many characters of s are in the set cs
CountIn(s, cs) == Cardinality({i \in DOMAIN s : s[i] \in cs})

\* the sum of the required counts of a call
RequiredSum(required) == Sum([i \in DOMAIN required |-> required[i].n])

\* the pool a call gives for the class of item i of `required`
ArgPool(args, i) ==
    IF args.required[i].key \in DOMAIN args.pools
    THEN args.pools[args.required[i].key] ELSE <<>>

\* a valid character-mode configuration
ValidRequest(args) ==
    /\ args.full_charset # <<>>
    /\ \A i \in DOMAIN args.required : args.required[i].n >= 0
    /\ RequiredSum(args.required) <= args.length
    /\ \A i \in DOMAIN args.required :
          args.required[i].n > 0 =>
              /\ ArgPool(args, i) # <<>>
              /\ Chars(ArgPool(args, i)) \subseteq Chars(args.full_charset)

\* C1: for a valid configuration generate_with_requirements returns a string
\* of exactly `length` characters, all of the full charset, with at least the
\* required count of characters of each class's pool.
C1_ValidRequestIsMet ==
    (Finished("generate_with_requirements") /\ ValidRequest(call.args)) =>
        /\ ~call.result.raised
        /\ Len(call.result.value) = call.args.length
        /\ Chars(call.result.value) \subseteq Chars(call.args.full_charset)
        /\ \A i \in DOMAIN call.args.required :
              CountIn(call.result.value, Chars(ArgPool(call.args, i)))
                  >= call.args.required[i].n

\* a valid call with a required character and a filler has returned
C1_Witness ==
    /\ Finished("generate_with_requirements") /\ ValidRequest(call.args)
    /\ call.args.required[2].n = 1
    /\ call.args.length = 2
    /\ call.args.required[1].n = 0
    /\ 49 \in Chars(call.result.value)
    /\ 97 \in Chars(call.result.value)

\* on_generate has run in the window: it left a password or a message box
Answered == call.fn = "none" /\ (out # <<>> \/ msgs # <<>>)

\* the sum of the minimums of the checked classes
WindowMinSum ==
    (IF chk_lower THEN min_lower ELSE 0) + (IF chk_upper THEN min_upper ELSE 0)
    + (IF chk_digits THEN min_digits ELSE 0) + (IF chk_symbols THEN min_symbols ELSE 0)

\* C2 as stated: whenever the sum of the per-class minimums is greater than
\* the length, the request is rejected with the RequirementExceedsLength error
\* and no password is returned, in a direct call of
\* generate_with_requirements and in on_generate.
C2_ExceedingSumIsRejected ==
    /\ (Finished("generate_with_requirements")
        /\ RequiredSum(call.args.required) > call.args.length) =>
           /\ call.result.raised
           /\ call.result.value = <<>>
           /\ call.result.error.msg = MsgRequiredExceed
    /\ (Answered /\ WindowMinSum > spin_length) =>
           /\ out = <<>>
           /\ msgs = <<Critical(MsgTotalExceed, "")>>

\* C2 amended: whenever the sum of the per-class minimums is greater than the
\* length, the request is rejected and no password is returned; the error is
\* RequirementExceedsLength when the full charset is not empty and EmptyCharset
\* when it is empty, the charset being checked first.
C2_ExceedingSumIsRejectedAfterCharsetCheck ==
    /\ (Finished("generate_with_requirements")
        /\ RequiredSum(call.args.required) > call.args.length) =>
           /\ call.result.raised
           /\ call.result.value = <<>>
           /\ call.result.error.msg =
                 IF call.args.full_charset = <<>> THEN MsgCharsetEmpty
                 ELSE MsgRequiredExceed
    /\ (Answered /\ WindowMinSum > spin_length) =>
           /\ out = <<>>
           /\ msgs = <<Critical(IF Charsets[window_args] = <<>>
                                THEN MsgEmptyAfterExclusions ELSE MsgTotalExceed, "")>>

\* on_generate has refused minimums of 2 + 2 + 1 for a Length of 4
C2_Witness ==
    /\ Answered
    /\ chk_lower /\ chk_upper /\ chk_digits /\ ~chk_symbols
    /\ min_lower = 2 /\ min_upper = 2 /\ min_digits = 1
    /\ spin_length = 4
    /\ msgs = <<Critical(MsgTotalExceed, "")>>

\* no character occurs twice in s
NoDuplicates(s) == \A i, j \in DOMAIN s : s[i] = s[j] => i = j

\* C3: for every combination of class flags, custom symbol string and
\* exclude-ambiguous flag, the string build_charset returns has no character
\* twice, and with exclude-ambiguous set it has no character of the ambiguous
\* set, the custom symbols included.
C3_CharsetUniqueAndUnambiguous ==
    Finished("build_charset") =>
        /\ NoDuplicates(call.result.value)
        /\ call.args.exclude_ambiguous =>
               Chars(call.result.value) \cap AMBIGUOUS = {}

\* build_charset has returned for upper case and the custom symbols "O #" with
\* the exclusion: "#" is in the charset, "O" is not
C3_Witness ==
    /\ Finished("build_charset")
    /\ call.args.exclude_ambiguous /\ call.args.include_symbols
    /\ call.args.include_upper
    /\ call.args.custom_symbols = <<79, 32, 35>>
    /\ 35 \in Chars(call.result.value)
    /\ 65 \in Chars(call.result.value)

\* the custom string without its leading and trailing whitespace
Trimmed(s) ==
    LET inked == {i \in DOMAIN s : ~IsSpace(s[i])}
    IN  IF inked = {} THEN <<>>
        ELSE SubSeq(s, CHOOSE i \in inked : \A j \in inked : i <= j,
                       CHOOSE i \in inked : \A j \in inked : i >= j)

\* the selected classes' effective alphabets, in the order lower, upper, digit,
\* symbol
Selected(args) ==
    (IF args.include_lower THEN ascii_lowercase ELSE <<>>)
    \o (IF args.include_upper THEN ascii_uppercase ELSE <<>>)
    \o (IF args.include_digits THEN digits ELSE <<>>)
    \o (IF ~args.include_symbols THEN <<>>
        ELSE IF Trimmed(args.custom_symbols) # <<>> THEN Trimmed(args.custom_symbols)
        ELSE DEFAULT_SYMBOLS)

\* where ch first occurs in s
FirstAt(s, ch) == CHOOSE i \in DOMAIN s : s[i] = ch /\ \A j \in 1..(i - 1) : s[j] # ch

\* C4: build_charset returns the concatenation of the selected classes'
\* effective alphabets in the order lower, upper, digit, symbol, without the
\* ambiguous characters when the flag is set, each character kept at its first
\* occurrence only; lower case alone, with no custom string and no exclusion,
\* gives the 26 letters a..z in order.
C4_CharsetIsOrderedConcatenation ==
    Finished("build_charset") =>
        LET all == Selected(call.args)
            kept == {ch \in Chars(all) : call.args.exclude_ambiguous => ch \notin AMBIGUOUS}
            res == call.result.value
        IN  /\ ~call.result.raised
            /\ NoDuplicates(res)
            /\ Chars(res) = kept
            /\ \A i, j \in DOMAIN res : i < j => FirstAt(all, res[i]) < FirstAt(all, res[j])
            /\ (/\ call.args.include_lower /\ ~call.args.include_upper
                /\ ~call.args.include_digits /\ ~call.args.include_symbols
                /\ call.args.custom_symbols = <<>> /\ ~call.args.exclude_ambiguous)
               => res = <<97, 98, 99, 100, 101, 102, 103, 104, 105, 106, 107, 108, 109,
                          110, 111, 112, 113, 114, 115, 116, 117, 118, 119, 120, 121, 122>>

\* build_charset has returned for all four classes, the custom symbols "#a#!"
\* and the exclusion: 48 letters and digits, then "#" and "!" once
C4_Witness ==
    /\ Finished("build_charset")
    /\ call.args.include_lower /\ call.args.include_upper
    /\ call.args.include_digits /\ call.args.include_symbols
    /\ call.args.exclude_ambiguous
    /\ call.args.custom_symbols = <<35, 97, 35, 33>>
    /\ Len(call.result.value) = 50
    /\ call.result.value[49] = 35 /\ call.result.value[50] = 33

\* the symbol alphabet of the window: the trimmed custom string, else the
\* default
WindowSymbols ==
    IF Trimmed(txt_custom_symbols) # <<>> THEN Trimmed(txt_custom_symbols)
    ELSE DEFAULT_SYMBOLS

\* the characters of a class of the window
ClassChars(key) ==
    CASE key = "lower" -> 97..122
      [] key = "upper" -> 65..90
      [] key = "digits" -> 48..57
      [] key = "symbols" -> Chars(WindowSymbols)

\* the minimum the window asks of a class, 0 when the class is not checked
WindowMin(key) ==
    CASE key = "lower" -> IF chk_lower THEN min_lower ELSE 0
      [] key = "upper" -> IF chk_upper THEN min_upper ELSE 0
      [] key = "digits" -> IF chk_digits THEN min_digits ELSE 0
      [] key = "symbols" -> IF chk_symbols THEN min_symbols ELSE 0

\* C5: with exclude-ambiguous set, a password on_generate produces has no
\* ambiguous character, has the Length asked for and holds each checked class's
\* minimum in unambiguous characters of that class; each pool given to the
\* sampler is the class's alphabet cut to the final charset. With all four
\* classes, Length 20, each minimum 1 and the default symbols the password has
\* 20 characters, a lower-case letter, an upper-case letter, a digit and a
\* symbol among them.
C5_ExcludedNeverInPassword ==
    (call.fn = "none" /\ chk_exclude_ambiguous /\ out # <<>>) =>
        /\ \A key \in DOMAIN Pools[window_args] :
              Chars(Pools[window_args][key]) =
                  ClassChars(key) \cap Chars(Charsets[window_args])
        /\ Chars(out) \cap AMBIGUOUS = {}
        /\ Len(out) = spin_length
        /\ \A key \in {"lower", "upper", "digits", "symbols"} :
              CountIn(out, ClassChars(key) \ AMBIGUOUS) >= WindowMin(key)

\* on_generate has produced a password for the configuration of the example:
\* all four classes, Length 20, each minimum 1, default symbols, exclusion
C5_Witness ==
    /\ call.fn = "none" /\ chk_exclude_ambiguous
    /\ chk_lower /\ chk_upper /\ chk_digits /\ chk_symbols
    /\ min_lower = 1 /\ min_upper = 1 /\ min_digits = 1 /\ min_symbols = 1
    /\ txt_custom_symbols = <<>>
    /\ spin_length = 20
    /\ Len(out) = 20
    /\ CountIn(out, Chars(DEFAULT_SYMBOLS)) >= 1

\* no class is checked in the window
NoClassSelected == ~(chk_lower \/ chk_upper \/ chk_digits \/ chk_symbols)

\* the exclusion removes every character of the checked classes: only the
\* symbols are checked and the symbol alphabet is made of ambiguous characters
AllExcluded ==
    /\ chk_exclude_ambiguous
    /\ chk_symbols /\ ~chk_lower /\ ~chk_upper /\ ~chk_digits
    /\ Chars(WindowSymbols) \subseteq AMBIGUOUS

\* C6: a password request whose charset is empty (no class selected, or every
\* character of the selected classes removed by the exclusion) fails with an
\* EmptyCharset error and gives no password, in generate_with_requirements
\* and in on_generate; build_charset returns the empty charset for such input.
C6_EmptyCharsetIsAnError ==
    /\ (Finished("generate_with_requirements") /\ call.args.full_charset = <<>>) =>
           /\ call.result.raised
           /\ call.result.value = <<>>
           /\ call.result.error.msg = MsgCharsetEmpty
    /\ (Answered /\ (NoClassSelected \/ AllExcluded)) =>
           /\ Charsets[window_args] = <<>>
           /\ out = <<>>
           /\ msgs = <<Critical(IF NoClassSelected THEN MsgNoClass
                                ELSE MsgEmptyAfterExclusions, "")>>

\* on_generate has refused symbols only, the custom symbols "O0" and the
\* exclusion
C6_Witness ==
    /\ Answered
    /\ chk_symbols /\ ~chk_lower /\ ~chk_upper /\ ~chk_digits
    /\ chk_exclude_ambiguous
    /\ txt_custom_symbols = <<79, 48>>
    /\ out = <<>>
    /\ msgs = <<Critical(MsgEmptyAfterExclusions, "")>>

\* the sum of the required counts of a call, a negative count taken as 0
CountedSum(required) ==
    Sum([i \in DOMAIN required |-> IF required[i].n > 0 THEN required[i].n ELSE 0])

\* C7: when the full charset is not empty and the required sum fits in the
\* length, a class with a required count above 0 and an empty pool (or no pool
\* at all) makes generate_with_requirements fail with the EmptyRequiredPool
\* error and return no password; when every class with an empty pool has the
\* required count 0 that error is never raised.
C7_EmptyRequiredPoolIsAnError ==
    Finished("generate_with_requirements") =>
        /\ (/\ call.args.full_charset # <<>>
            /\ CountedSum(call.args.required) <= call.args.length
            /\ \E i \in DOMAIN call.args.required :
                  call.args.required[i].n > 0 /\ ArgPool(call.args, i) = <<>>)
           => /\ call.result.raised
              /\ call.result.value = <<>>
              /\ call.result.error.msg = MsgPoolEmpty
        /\ (\A i \in DOMAIN call.args.required :
               ArgPool(call.args, i) = <<>> => call.args.required[i].n = 0)
           => ~(call.result.raised /\ call.result.error.msg = MsgPoolEmpty)

\* generate_with_requirements has refused one digit from no pool at all, with
\* the charset "ab1", length 2 and a lower-case pool that is empty but not
\* required
C7_Witness ==
    /\ Finished("generate_with_requirements")
    /\ call.args.full_charset = <<97, 98, 49>>
    /\ call.args.length = 2
    /\ call.args.required[1].n = 0 /\ call.args.required[2].n = 1
    /\ DOMAIN call.args.pools = {"lower"}
    /\ call.args.pools["lower"] = <<>>
    /\ call.result.raised
    /\ call.result.error.msg = MsgPoolEmpty
    /\ call.result.error.key = "digits"

\* the characters a word of a wordlist file may have: the ASCII letters of
\* either case, the apostrophe and the hyphen
AsciiWordChars == (65..90) \cup (97..122) \cup {39, 45}

\* a word with its ASCII capitals made small
AsciiLower(w) == [i \in DOMAIN w |-> IF w[i] \in 65..90 THEN w[i] + 32 ELSE w[i]]

\* the vocabulary a text should give: the trimmed lines that are not empty and
\* have word characters only, lower-cased, each at its first occurrence
ExpectedWords(text) ==
    LET lines == Lines(text)
        trimmed == [k \in DOMAIN lines |-> Trimmed(lines[k])]
        kept == SelectSeq(trimmed, LAMBDA w : w # <<>> /\ Chars(w) \subseteq AsciiWordChars)
        lowered == [k \in DOMAIN kept |-> AsciiLower(kept[k])]
        firsts == SelectSeq([i \in DOMAIN lowered |-> i],
                            LAMBDA i : \A j \in 1..(i - 1) : lowered[j] # lowered[i])
    IN  [k \in DOMAIN firsts |-> lowered[firsts[k]]]

\* a message box of the last handler is an error
ErrorShown == \E i \in DOMAIN msgs : msgs[i].icon = "critical"

\* C8: a load from a text yields exactly the trimmed, non-empty lines made of
\* ASCII letters, apostrophes and hyphens only, lower-cased, without
\* duplicates, in first-seen order; so every word of a loaded vocabulary has
\* only lower-case ASCII letters, apostrophes and hyphens, and no word occurs
\* twice.
C8_LoadYieldsAsciiWords ==
    opened.state = "read" =>
        /\ ExpectedWords(opened.text) # <<>> =>
               ~ErrorShown /\ wordlist = ExpectedWords(opened.text)
        /\ ~ErrorShown =>
               /\ wordlist = ExpectedWords(opened.text)
               /\ NoDuplicates(wordlist)
               /\ \A i \in DOMAIN wordlist :
                     Chars(wordlist[i]) \subseteq (97..122) \cup {39, 45}

\* C9: a load that fails (the file cannot be read, or its text has no usable
\* word) reports an error and leaves the active vocabulary exactly as it was;
\* a load that succeeds makes the active vocabulary exactly the list loaded
\* from the text, with no word of the previous vocabulary merged in.
C9_LoadReplacesOrKeepsVocabulary ==
    [][opened'.state # "none" =>
          IF opened'.state = "failed" \/ FilteredOf[opened'.text] = <<>>
          THEN /\ wordlist' = wordlist
               /\ \E i \in DOMAIN msgs' : msgs'[i].icon = "critical"
          ELSE /\ wordlist' = FilteredOf[opened'.text]
               /\ \A i \in DOMAIN msgs' : msgs'[i].icon # "critical"]_vars

\* after a load that gave "cat" a load of a file without a usable word has
\* failed: the vocabulary is still "cat"
C9_Witness ==
    /\ wordlist = << <<99, 97, 116>> >>
    /\ opened.state = "read"
    /\ FilteredOf[opened.text] = <<>>
    /\ msgs[Len(msgs)] = Critical(MsgNoUsable, "")

\* s is n words of `words` joined by sep
RECURSIVE IsJoined(_, _, _, _)
IsJoined(s, words, n, sep) ==
    IF n <= 1 THEN n = 1 /\ \E i \in DOMAIN words : words[i] = s
    ELSE \E i \in DOMAIN words :
            LET w == words[i]
                head == Len(w) + Len(sep)
            IN  /\ Len(s) >= head
                /\ (w # <<>> => s[1] = w[1])
                /\ SubSeq(s, 1, Len(w)) = w
                /\ SubSeq(s, Len(w) + 1, head) = sep
                /\ IsJoined(SubSeq(s, head + 1, Len(s)), words, n - 1, sep)

\* C10: a load whose normalized list has at least 1 word is accepted as the
\* active vocabulary and reports success; with fewer than 256 words it shows
\* the 'wordlist too small' warning and nothing else, with 256 or more it shows
\* nothing; passphrase generation then proceeds from the loaded list without
\* an error.
C10_SmallWordlistIsAcceptedWithWarning ==
    (opened.state = "read" /\ FilteredOf[opened.text] # <<>>) =>
        /\ wordlist = FilteredOf[opened.text]
        /\ wordlist_path # ""
        /\ lbl_wordlist = [words |-> Len(FilteredOf[opened.text]), from |-> wordlist_path]
        /\ msgs = IF Len(FilteredOf[opened.text]) < 256 THEN <<Warning(MsgTooSmall)>>
                  ELSE <<>>
        /\ \A r \in on_generate_results(Charsets[window_args], Pools[window_args]) :
              /\ r.msgs = <<>>
              /\ IsJoined(r.out, FilteredOf[opened.text], spin_words, txt_separator)

\* a file of 255 different words has been loaded: the warning is shown and
\* the 255 words are the vocabulary
C10_Witness ==
    /\ opened.state = "read"
    /\ Len(FilteredOf[opened.text]) = 255
    /\ Len(wordlist) = 255
    /\ msgs = <<Warning(MsgTooSmall)>>
    /\ lbl_wordlist.words = 255

------------------------------------------------------------------------------
(* Claims about generate_passphrase *)

\* the words of the tuple t as they are spelled in a passphrase
Spelled(t, cap) == [i \in DOMAIN t |-> IF cap THEN Capitalize(t[i]) ELSE t[i]]

\* C11: for a non-empty word list and n >= 1, generate_passphrase returns n
\* words of the list (capitalized when asked) joined by the separator; the
\* draws are with replacement: every n-tuple of words of the list, a tuple
\* that repeats a word included, is the result under some random source.
C11_PassphraseIsAnyTupleOfWords ==
    (/\ Finished("generate_passphrase")
     /\ call.args.words # <<>> /\ call.args.n_words >= 1) =>
        LET a == call.args
            tuples == [1..a.n_words -> Range(a.words)]
            made(t) == Join(a.sep, Spelled(t, a.cap))
        IN  /\ ~call.result.raised
            /\ \E t \in tuples : call.result.value = made(t)
            /\ \A t \in tuples : \E tape \in WordTapes :
                  generate_passphrase(a.n_words, a.words, a.sep, a.cap, tape, 1)
                      = Returned(made(t))

\* generate_passphrase has returned "cd-cd" for two words of ["ab", "cd"]
C11_Witness ==
    /\ Finished("generate_passphrase")
    /\ call.args.words = << <<97, 98>>, <<99, 100>> >>
    /\ call.args.n_words = 2
    /\ call.args.sep = <<45>> /\ ~call.args.cap
    /\ call.result.value = <<99, 100, 45, 99, 100>>

\* the words of `parts` one after the other with nothing between them
RECURSIVE Concat(_)
Concat(parts) == IF parts = <<>> THEN <<>> ELSE Head(parts) \o Concat(Tail(parts))

\* the words of the window's vocabulary as a passphrase spells them
WindowWords ==
    IF chk_capitalize THEN [i \in DOMAIN wordlist |-> Capitalize(wordlist[i])]
    ELSE wordlist

\* C12: a passphrase generated with an empty separator is the drawn words
\* one after the other with nothing between them, in a call of
\* generate_passphrase and in on_generate with the separator field left
\* empty: the default "-" is not put in for an empty separator.
C12_EmptySeparatorConcatenates ==
    /\ (/\ Finished("generate_passphrase") /\ call.args.sep = <<>>
        /\ call.args.words # <<>> /\ call.args.n_words >= 1) =>
           /\ ~call.result.raised
           /\ \E t \in [1..call.args.n_words -> Range(call.args.words)] :
                 call.result.value = Concat(Spelled(t, call.args.cap))
    /\ (/\ Answered /\ preset_index = 4 /\ txt_separator = <<>> /\ out # <<>>) =>
           IsJoined(out, WindowWords, spin_words, <<>>)

\* a word with its first character, when it is a small ASCII letter, made
\* capital and every other character as it was
FirstUpper(w) ==
    IF w = <<>> THEN w
    ELSE <<IF w[1] \in 97..122 THEN w[1] - 32 ELSE w[1]>> \o Tail(w)

------------------------------------------------------------------------------
(* Claims about estimate_entropy_bits *)

------------------------------------------------------------------------------
(* Claims about the batch of on_generate *)

\* the lines of the text of self.out, without their line ends
ShownSecrets(text) ==
    [k \in DOMAIN Lines(text) |->
        SelectSeq(Lines(text)[k], LAMBDA ch : ch # 10)]

\* s is one whole secret of the present settings: a passphrase of spin_words
\* words of the vocabulary, or spin_length characters of the charset
WholeSecret(s) ==
    IF preset_index = 4
    THEN IsJoined(s, WindowWords, spin_words,
                  IF txt_separator # <<>> THEN txt_separator ELSE <<45>>)
    ELSE /\ Len(s) = spin_length
         /\ Chars(s) \subseteq Chars(Charsets[window_args])

\* C16: generation is all-or-nothing: a call of generate_with_requirements or
\* generate_passphrase that raises returns nothing, and a request of `count`
\* secrets through on_generate either shows an error and leaves the output
\* exactly as it was, or shows no error and replaces the output by `count`
\* whole secrets, one per line; never by fewer.
C16_GenerationIsAllOrNothing ==
    [][/\ (call'.fn # "none" /\ call'.done /\ call'.result.raised) =>
              call'.result.value = <<>>
       /\ (call.fn = "none" /\ UNCHANGED modeVars /\ on_generate) =>
              LET count == IF cmb_mode = "Multiple" THEN spin_count ELSE 1
                  shown == ShownSecrets(out')
              IN  \/ /\ msgs' # <<>>
                     /\ msgs'[1].icon = "critical"
                     /\ out' = out
                  \/ /\ msgs' = <<>>
                     /\ Len(shown) = count
                     /\ \A k \in DOMAIN shown : WholeSecret(shown[k])
                     /\ out' = Join(<<10>>, shown)]_vars

\* a batch of two passphrases was shown, then a request of two passwords with
\* a class that has no character left failed: the two passphrases are still
\* shown
C16_Witness ==
    /\ cmb_mode = "Multiple" /\ spin_count = 2
    /\ preset_index = 0
    /\ msgs # <<>> /\ msgs[1].icon = "critical" /\ msgs[1].text = MsgGenerationFailed
    /\ Len(ShownSecrets(out)) = 2
    /\ \A k \in 1..2 : IsJoined(ShownSecrets(out)[k], wordlist, 2, <<45>>)

------------------------------------------------------------------------------
(* Claims about the shuffle of generate_with_requirements *)

RECURSIVE Factorial(_)
Factorial(n) == IF n <= 1 THEN 1 ELSE n * Factorial(n - 1)

\* the positions 1..n in order, shuffled under the draws of `tape`
ShuffledPositions(n, tape) == Shuffle([q \in 1..n |-> q], n - 1, tape, 1)

\* C17: the shuffle returns a rearrangement of exactly the characters it is
\* given, each as often as it was there, and the rearrangement of the
\* positions depends on the draws alone, not on the characters; for n
\* positions there are n! combinations of draws, each gives a permutation of
\* the positions and no two give the same one, so every one of the n!
\* permutations comes from exactly one combination.
C17_ShuffleIsUnbiasedPermutation ==
    Finished("shuffle") =>
        LET s == call.args.pw_chars
            n == Len(s)
            shuffled == call.result.value
            perm == ShuffledPositions(n, call.args.tape)
        IN  /\ Len(shuffled) = n
            /\ \A c \in Chars(s) : CountIn(shuffled, {c}) = CountIn(s, {c})
            /\ Chars(perm) = 1..n
            /\ shuffled = [q \in 1..n |-> s[perm[q]]]
            /\ Cardinality(ShuffleTapes(n)) = Factorial(n)
            /\ \A t \in ShuffleTapes(n) :
                  ShuffledPositions(n, t) = perm => t = call.args.tape

\* "aab" has been shuffled into "baa" with the draws 1, 0
C17_Witness ==
    /\ Finished("shuffle")
    /\ call.args.pw_chars = <<97, 97, 98>>
    /\ call.args.tape = <<1, 0>>
    /\ call.result.value = <<98, 97, 97>>

------------------------------------------------------------------------------
(* Claims about loading while generating *)

\* the complete vocabularies: the fallback list and the whole list of each
\* readable file that has a usable word
CompleteVocabularies ==
    {FALLBACK_WORDS} \cup
    ({FilteredOf[f.text] : f \in {g \in SwapFiles : g.state = "read"}} \ {<<>>})

\* C18: with the statements of a load and of a passphrase generation
\* interleaved in any order, the active vocabulary is always a complete one
\* and changes only in the one step that assigns the finished list of the
\* loaded file; the list a generation reads is a complete vocabulary, the
\* same one from its first pick to its last, every word of its passphrase
\* comes from that list, and no step of a generation changes the active
\* vocabulary.
C18_VocabularySwapIsAtomic ==
    /\ [](/\ wordlist \in CompleteVocabularies
          /\ generator.pc \in {"pick", "done"} =>
                /\ ~generator.raised
                /\ generator.words \in CompleteVocabularies
                /\ \A i \in DOMAIN generator.picks :
                      \E j \in DOMAIN generator.words :
                          generator.words[j] = generator.picks[i]
          /\ (generator.pc = "done" /\ Len(generator.picks) = spin_words) =>
                IsJoined(out, generator.words, spin_words, txt_separator))
    /\ [][/\ (generator.pc = "pick" /\ generator'.pc # "idle") =>
                /\ generator'.words = generator.words
                /\ SubSeq(generator'.picks, 1, Len(generator.picks)) = generator.picks
          /\ (generator' # generator /\ loader' = loader) => wordlist' = wordlist
          /\ wordlist' # wordlist =>
                /\ loader.pc = "build" /\ loader'.pc = "idle"
                /\ wordlist' = FilteredOf[opened.text]]_vars

\* a passphrase of the first and the last word of the fallback list has been
\* made while a load replaced the vocabulary by "cat", "dog"
C18_Witness ==
    /\ generator.pc = "done" /\ ~generator.alias
    /\ generator.words = FALLBACK_WORDS
    /\ generator.picks = <<FALLBACK_WORDS[1], FALLBACK_WORDS[Len(FALLBACK_WORDS)]>>
    /\ wordlist = << <<99, 97, 116>>, <<100, 111, 103>> >>
    /\ out = FALLBACK_WORDS[1] \o <<45>> \o FALLBACK_WORDS[Len(FALLBACK_WORDS)]

------------------------------------------------------------------------------
(* Claims about the minimum spin boxes *)

\* the values of the four minimum spin boxes
Minimums == <<min_lower, min_upper, min_digits, min_symbols>>

\* C19: after construction from any saved settings and after any sequence of
\* the user entering a Length, entering a minimum or picking a preset, every
\* per-class minimum is between 0 and the Length and the maximum of the
\* minimum spin boxes is the Length; a step that lowers the Length leaves no
\* minimum above the new Length, and when the user lowers the Length each
\* minimum becomes the smaller of its value and the new Length.
C19_MinimumsStayWithinLength ==
    /\ [](/\ min_maximum = spin_length
          /\ \A i \in DOMAIN Minimums : Minimums[i] \in 0..spin_length)
    /\ [][spin_length' < spin_length =>
             /\ \A i \in DOMAIN Minimums : Minimums[i]' <= spin_length'
             /\ preset_index' = preset_index =>
                   \A i \in DOMAIN Minimums :
                       Minimums[i]' = Min(Minimums[i], spin_length')]_vars

\* with the Strong preset picked the Length is the least one and two of the
\* minimums are as large as it
C19_Witness ==
    /\ preset_index = 2
    /\ spin_length = MIN_LENGTH /\ min_maximum = MIN_LENGTH
    /\ min_lower = MIN_LENGTH /\ min_symbols = MIN_LENGTH
    /\ min_upper = 1 /\ min_digits = 0

------------------------------------------------------------------------------
(* Claims about the vocabulary of the window *)

\* C20: the active vocabulary is never empty: it is the fallback list or a
\* loaded list with at least one word at startup and after every load,
\* successful or failed, and on_generate with the passphrase preset never
\* shows "No wordlist available."
C20_VocabularyIsNeverEmpty ==
    /\ wordlist # <<>>
    /\ \A i \in DOMAIN wordlist : wordlist[i] # <<>>
    /\ \A i \in DOMAIN msgs : msgs[i].text # MsgNoWordlist

\* a passphrase of the loaded vocabulary "cat", "dog" has been generated
\* and no error was shown
C20_Witness ==
    /\ wordlist = << <<99, 97, 116>>, <<100, 111, 103>> >>
    /\ out # <<>> /\ msgs = <<>>
    /\ opened = NotOpened
    /\ IsJoined(out, wordlist, spin_words, <<45>>)

------------------------------------------------------------------------------
(* Claims about the wordlist path *)

\* C21: the wordlist path is set exactly when the active vocabulary is a list
\* loaded from a file: while the vocabulary is the built-in fallback list
\* (no load yet, or the startup load of the remembered path failed or its
\* file is missing) the path is unset, the label reports the fallback list
\* and closing the window persists no path; with a loaded vocabulary the
\* path is set and the label names it.
C21_PathNamesActiveVocabulary ==
    /\ wordlist = FALLBACK_WORDS =>
          /\ wordlist_path = ""
          /\ lbl_wordlist = wordlist_label_text(FALLBACK_WORDS, "")
          /\ persisted_on_close = ""
    /\ wordlist # FALLBACK_WORDS =>
          /\ wordlist_path \in Paths
          /\ lbl_wordlist = wordlist_label_text(wordlist, wordlist_path)
          /\ persisted_on_close = wordlist_path

====
